---- MODULE Spec2Model ----
(***************************************************************************)
(* Model of the layout / paging / clipping core of rat-widget.             *)
(*                                                                         *)
(*   SpecPager    SinglePager / DualPager: page state, navigation, the     *)
(*                mouse handler and the frames that renew the layout.      *)
(*   SpecRender   the two-phase render pass with a stateful widget.        *)
(*   SpecClip     Clipper / View: scroll offsets and frames.               *)
(*   SpecPagerRW  frames and direct writes of the public field `page`      *)
(*                (documented __read+write__).                             *)
(*   SpecClipBuf  Clipper / View: the off-screen buffer, the stateful      *)
(*                render into it and the final copy to the screen.         *)
(*   SpecChoice   a Choice rendered through a pager: relocation, hiding.   *)
(*   SpecGlyph    RopeGlyphIter / GlyphIter: graphemes to glyphs.          *)
(*   SpecWord     the word helpers of text::graphemes moving a cursor.     *)
(*   SpecDialog   MsgDialogState: messages and the modal event handler.    *)
(*   SpecChoiceValue  the items and the selection of a Choice.             *)
(*   SpecClipWidget   Clipper: the render calls for a plain widget.        *)
(*   SpecNav      SinglePager / DualPager: paging to both ends.            *)
(*   SpecChoiceSelect  the selection methods of a Choice.                  *)
(*   SpecChoiceKey     the keyboard handler of a focused Choice.           *)
(***************************************************************************)
EXTENDS Integers, Sequences, FiniteSets, TLC

\* ------------------------------------------------------------------------
\* Bounds
\* ------------------------------------------------------------------------
MaxSlots == 4        \* number of one-row layout slots declared by the app
MaxTarget == 5       \* largest page number passed to set_page / written
MaxX == 8            \* largest mouse column
MaxOffset == 6       \* largest offset / position passed to the scroll methods
MaxDelta == 2        \* largest scroll delta
MaxLen == 3          \* largest number of graphemes of a text
MaxCol == 4          \* largest column offset of a glyph iterator
MaxMsgs == 2         \* largest number of messages appended to a dialog
MaxKeys == 2         \* largest number of items of a Choice

U16 == 65536

Min(a, b) == IF a <= b THEN a ELSE b
Max(a, b) == IF a >= b THEN a ELSE b
SatSub(a, b) == IF a >= b THEN a - b ELSE 0

\* ------------------------------------------------------------------------
\* ratatui::layout::Rect
\* ------------------------------------------------------------------------
Rect(x, y, w, h) == [x |-> x, y |-> y, width |-> w, height |-> h]
\* Rect::new clamps the size so that right()/bottom() fit into u16.
RectNew(x, y, w, h) == Rect(x, y, Min(w, (U16 - 1) - x), Min(h, (U16 - 1) - y))
RectDefault == Rect(0, 0, 0, 0)
IsEmpty(r) == r.width = 0 \/ r.height = 0
Contains(r, x, y) ==
    /\ x >= r.x /\ x < r.x + r.width
    /\ y >= r.y /\ y < r.y + r.height

\* Block::inner for a block with Borders::ALL.
BlockInner(a) ==
    LET x1 == Min(a.x + 1, a.x + a.width)
        w1 == SatSub(a.width, 1)
        y1 == Min(a.y + 1, a.y + a.height)
        h1 == SatSub(a.height, 1)
    IN  Rect(x1, y1, SatSub(w1, 1), SatSub(h1, 1))

\* The inner area of the pager: block.inner(area), or the area below the
\* title line if there is no block.
PagerInner(a, block) ==
    IF block THEN BlockInner(a)
    ELSE RectNew(a.x, a.y + 1, a.width, SatSub(a.height, 1))

\* ------------------------------------------------------------------------
\* PagerLayout: one-row slots, broken into pages of the height of the
\* layout area.  Handles are the slot indexes.  A layout area without rows
\* gives one empty page and no rectangles.
\* ------------------------------------------------------------------------
LayoutDefault == [slots |-> 0, width |-> 0, height |-> 0]
RunLayout(slots, a) ==
    [slots |-> IF a.height = 0 THEN 0 ELSE slots,
     width |-> a.width, height |-> a.height]
Handles(l) == 0 .. (l.slots - 1)
num_pages(l) ==
    IF l.slots = 0 THEN 1 ELSE (l.slots + l.height - 1) \div l.height
\* the rectangle of a handle in layout coordinates: pages are stacked
layout_handle(l, h) == Rect(0, h, l.width, 1)
\* (page, area relative to the page) of a rectangle of the layout
buf_area(l, r) ==
    [page |-> r.y \div l.height,
     area |-> Rect(r.x, r.y % l.height, r.width, r.height)]
\* (page, area relative to the page) of a handle
buf_handle(l, h) == buf_area(l, layout_handle(l, h))

\* usize & !1
ClearBit0(p) == p - (p % 2)

VARIABLES
    pager,        \* "Single" or "Dual": which pager this state belongs to
    page,         \* state.page
    layout,       \* state.layout
    area,         \* state.area
    widget_area1, \* SinglePagerState.widget_area / DualPagerState.widget_area1
    widget_area2, \* DualPagerState.widget_area2
    divider_area, \* DualPagerState.divider_area
    prev_area,    \* state.prev_area
    next_area,    \* state.next_area
    scroll_area,  \* state.scroll_area
    hover,        \* state.mouse.hover: -1 for None, else the index
    panicked,     \* an arithmetic overflow check aborted the program
    phase,        \* "idle", or "buffer" while a PagerBuffer is alive
    buf,          \* the PagerBuffer created by into_buffer
    wstate,       \* the area cached in the state of a stateful widget
    call,         \* the last operation and its arguments
    old_page,     \* state.page when the last operation started
    ret,          \* what the last operation returned / did
    clip,         \* "Clipper" or "View": which widget the scroll state is of
    hscroll,      \* state.hscroll: offset, max_offset, page_len
    vscroll,      \* state.vscroll
    c_area,       \* ClipperState.area / ViewState.area
    c_widget_area, \* state.widget_area: the viewport
    c_layout,     \* state.layout: the content area
    c_phase,      \* "idle", or "buffer" while a ClipperBuffer/ViewBuffer is alive
    c_buf,        \* the ClipperBuffer / ViewBuffer created by into_buffer
    c_call,       \* the last Clipper/View operation
    c_buffer,     \* state.buffer: the off-screen buffer kept between frames
    c_wstate,     \* the area cached in the state of a widget drawn off-screen
    c_ret,        \* what the last off-screen render call did
    c_reused,     \* the last into_buffer took the buffer out of the state
    c_done,       \* a final render has completed
    c_panicked,   \* an index or slice check aborted the program
    phys,         \* the frame buffer the final render was given
    choice,       \* a ChoiceState rendered through the pager
    choice_nohide, \* the same ChoiceState if no render call had hidden it
    ch_call,      \* the last operation on the ChoiceState
    ch_washidden, \* the ChoiceState was hidden after it was last drawn
    ch_keys,      \* state.keys: the keys 0 .. ch_keys - 1 of the items
    ch_selected,  \* state.selected
    ch_value,     \* what the last value_opt / value_opt_ref returned
    ch_nav,       \* state.nav_char: the lowercase first character per item
    ch_default,   \* state.default_key
    ch_focus,     \* state.focus: the flags of the FocusFlag
    git,          \* a glyph iterator: its settings, position and column
    emitted,      \* the glyphs the iterator has returned
    g_done,       \* the iterator has returned None
    w_text,       \* the graphemes of a line of text
    w_pos,        \* the cursor, a grapheme position
    w_call,       \* the last word helper called and the position passed
    w_fail,       \* "none", or how an arithmetic underflow ended the call
    dlg,          \* MsgDialogState
    dlg_call,     \* the last event handled by the dialog and its outcome
    dlg_since     \* the texts appended since the dialog was last closed

pagerVars == <<pager, page, layout, area, widget_area1, widget_area2,
               divider_area, prev_area, next_area, scroll_area, hover,
               panicked, phase, buf, wstate, call, old_page, ret>>

clipVars == <<clip, hscroll, vscroll, c_area, c_widget_area, c_layout,
              c_phase, c_buf, c_call, c_buffer, c_wstate, c_ret, c_reused,
              c_done, c_panicked, phys>>

valueVars == <<ch_keys, ch_selected, ch_value, ch_nav, ch_default, ch_focus>>

choiceVars == <<choice, choice_nohide, ch_call, ch_washidden, valueVars>>

glyphVars == <<git, emitted, g_done>>

wordVars == <<w_text, w_pos, w_call, w_fail>>

dialogVars == <<dlg, dlg_call, dlg_since>>

miscVars == <<glyphVars, wordVars, dialogVars>>

vars == <<pagerVars, clipVars, choiceVars, miscVars>>

\* ------------------------------------------------------------------------
\* SinglePagerState / DualPagerState: page selection
\* ------------------------------------------------------------------------
M_SingleSetPage(p, n, t) == IF t > n THEN n - 1 ELSE t
SingleSetPage(p, n, t) == IF t >= n THEN n - 1 ELSE t
M_DualSetPage(p, n, t) == IF t >= n THEN n - 1 ELSE ClearBit0(t)
DualSetPage(p, n, t) == IF t >= n THEN ClearBit0(n - 1) ELSE ClearBit0(t)
SetPageOf(kind, p, n, t) ==
    IF kind = "Single" THEN SingleSetPage(p, n, t) ELSE DualSetPage(p, n, t)

SingleNextPage(p, n) == IF p + 1 >= n THEN n - 1 ELSE p + 1
M_DualNextPage(p, n) == IF p + 2 >= n THEN n - 1 ELSE ClearBit0(p + 2)
DualNextPage(p, n) == IF p + 2 >= n THEN ClearBit0(n - 1) ELSE ClearBit0(p + 2)
NextPageOf(kind, p, n) ==
    IF kind = "Single" THEN SingleNextPage(p, n) ELSE DualNextPage(p, n)

M_SinglePrevPage(p) == IF p > 1 THEN p - 1 ELSE p
SinglePrevPage(p) == IF p > 0 THEN p - 1 ELSE p
DualPrevPage(p) == IF p >= 2 THEN ClearBit0(p - 2) ELSE p
SinglePrevPageRet(p) == p > 0
DualPrevPageRet(p) == p >= 2
PrevPageOf(kind, p) ==
    IF kind = "Single" THEN SinglePrevPage(p) ELSE DualPrevPage(p)
PrevPageRetOf(kind, p) ==
    IF kind = "Single" THEN SinglePrevPageRet(p) ELSE DualPrevPageRet(p)

\* show / show_handle / show_area: page of the handle, snapped for Dual
SingleShow(q) == q
M_DualShow(q) == q
DualShow(q) == ClearBit0(q)
ShowPageOf(kind, q) == IF kind = "Single" THEN SingleShow(q) ELSE DualShow(q)

\* ------------------------------------------------------------------------
\* rat_reloc::relocate_area: shift, clip, empty results become the zero rect
\* ------------------------------------------------------------------------
Intersection(a, b) ==
    LET x1 == Max(a.x, b.x)
        y1 == Max(a.y, b.y)
        x2 == Min(a.x + a.width, b.x + b.width)
        y2 == Min(a.y + a.height, b.y + b.height)
    IN  Rect(x1, y1, SatSub(x2, x1), SatSub(y2, y1))
relocate_area(r, dx, dy, clip_rect) ==
    LET x0 == Max(r.x + dx, 0)
        y0 == Max(r.y + dy, 0)
        x1 == Max(r.x + r.width + dx, 0)
        y1 == Max(r.y + r.height + dy, 0)
        t == Intersection(Rect(x0, y0, x1 - x0, y1 - y0), clip_rect)
    IN  IF IsEmpty(t) THEN RectDefault ELSE t

\* ------------------------------------------------------------------------
\* Inputs
\* ------------------------------------------------------------------------
Areas == {Rect(0, 0, 12, 3), Rect(1, 0, 8, 2), Rect(0, 0, 4, 3)}
EventKinds == {"down_left", "down_right", "moved", "scroll_down", "scroll_up",
               "key"}
Events == [kind : EventKinds, x : {0, 5, MaxX}, y : {0}]
              \cup [kind : EventKinds, x : {5}, y : {1}]

\* PagerOutcome
Outcome(tag, p) == [tag |-> tag, page |-> p, at |-> RectDefault]
Continue == Outcome("Continue", 0)
Unchanged == Outcome("Unchanged", 0)
Changed == Outcome("Changed", 0)
PageOutcome(p) == Outcome("Page", p)
NoRet == Outcome("None", 0)
BoolRet(b) == Outcome(IF b THEN "true" ELSE "false", 0)

NoEvent == [kind |-> "none", x |-> 0, y |-> 0]
Call(op, arg) == [op |-> op, arg |-> arg, ev |-> NoEvent]
NoCall == Call("new", 0)
NoBuf == [page |-> 0, widget_area1 |-> RectDefault,
          widget_area2 |-> RectDefault, layout |-> LayoutDefault]

PagerInit ==
    /\ pager \in {"Single", "Dual"}
    /\ page = 0
    /\ layout = LayoutDefault
    /\ area = RectDefault
    /\ widget_area1 = RectDefault
    /\ widget_area2 = RectDefault
    /\ divider_area = RectDefault
    /\ prev_area = RectDefault
    /\ next_area = RectDefault
    /\ scroll_area = RectDefault
    /\ hover = -1
    /\ panicked = FALSE
    /\ phase = "idle"
    /\ buf = NoBuf
    /\ wstate = RectDefault
    /\ call = NoCall
    /\ old_page = 0
    /\ ret = NoRet


geomVars == <<area, widget_area1, widget_area2, divider_area, prev_area,
              next_area, scroll_area>>

\* ------------------------------------------------------------------------
\* State methods called by the application between frames
\* ------------------------------------------------------------------------
Idle == phase = "idle" /\ ~panicked

SetPage(t) ==
    /\ Idle
    /\ page' = SetPageOf(pager, page, num_pages(layout), t)
    /\ old_page' = page
    /\ call' = Call("set_page", t)
    /\ ret' = BoolRet(page # page')
    /\ UNCHANGED <<miscVars, choiceVars, clipVars, pager, layout, geomVars, hover, panicked, phase, buf, wstate>>

NextPage ==
    /\ Idle
    /\ page' = NextPageOf(pager, page, num_pages(layout))
    /\ old_page' = page
    /\ call' = Call("next_page", 0)
    /\ ret' = BoolRet(page # page')
    /\ UNCHANGED <<miscVars, choiceVars, clipVars, pager, layout, geomVars, hover, panicked, phase, buf, wstate>>

PrevPage ==
    /\ Idle
    /\ page' = PrevPageOf(pager, page)
    /\ old_page' = page
    /\ call' = Call("prev_page", 0)
    /\ ret' = BoolRet(PrevPageRetOf(pager, page))
    /\ UNCHANGED <<miscVars, choiceVars, clipVars, pager, layout, geomVars, hover, panicked, phase, buf, wstate>>

\* SinglePagerState::show / DualPagerState::show_handle
ShowHandle(h) ==
    /\ Idle
    /\ h \in Handles(layout)
    /\ page' = ShowPageOf(pager, buf_handle(layout, h).page)
    /\ old_page' = page
    /\ call' = Call("show_handle", h)
    /\ ret' = NoRet
    /\ UNCHANGED <<miscVars, choiceVars, clipVars, pager, layout, geomVars, hover, panicked, phase, buf, wstate>>

\* show_area with the layout area of a handle
ShowArea(h) ==
    /\ Idle
    /\ h \in Handles(layout)
    /\ page' = ShowPageOf(pager, buf_area(layout, layout_handle(layout, h)).page)
    /\ old_page' = page
    /\ call' = Call("show_area", h)
    /\ ret' = NoRet
    /\ UNCHANGED <<miscVars, choiceVars, clipVars, pager, layout, geomVars, hover, panicked, phase, buf, wstate>>

\* The application assigns the public field `page`.
WritePage(t) ==
    /\ Idle
    /\ page' = t
    /\ old_page' = page
    /\ call' = Call("write_page", t)
    /\ ret' = NoRet
    /\ UNCHANGED <<miscVars, choiceVars, clipVars, pager, layout, geomVars, hover, panicked, phase, buf, wstate>>

\* ------------------------------------------------------------------------
\* HandleEvent<_, MouseOnly, PagerOutcome>
\* ------------------------------------------------------------------------
\* rat_event MouseFlagsN::hover: index of the first area under the mouse
ItemAt(areas, x, y) ==
    IF \E i \in 1 .. Len(areas) : Contains(areas[i], x, y)
    THEN (CHOOSE i \in 1 .. Len(areas) :
             /\ Contains(areas[i], x, y)
             /\ \A j \in 1 .. (i - 1) : ~Contains(areas[j], x, y)) - 1
    ELSE -1
HoverOf(ev, pa, na, hv) ==
    IF ev.kind = "moved" THEN ItemAt(<<pa, na>>, ev.x, ev.y) ELSE hv

IsMouse(ev) == ev.kind # "key"

\* which arm of the match handles the event
M_HandleArm(ev, pa, na, sa, hv) ==
    IF ev.kind = "down_left" /\ Contains(pa, ev.x, ev.y) THEN "prev"
    ELSE IF ev.kind = "down_left" /\ Contains(na, ev.x, ev.y) THEN "next"
    ELSE IF ev.kind = "scroll_down" THEN "next"
    ELSE IF ev.kind = "scroll_up" THEN "prev"
    ELSE IF IsMouse(ev) /\ HoverOf(ev, pa, na, hv) # hv THEN "hover"
    ELSE "continue"
HandleArm(ev, pa, na, sa, hv) ==
    IF ev.kind = "down_left" /\ Contains(pa, ev.x, ev.y) THEN "prev"
    ELSE IF ev.kind = "down_left" /\ Contains(na, ev.x, ev.y) THEN "next"
    ELSE IF ev.kind = "scroll_down" THEN
        IF Contains(sa, ev.x, ev.y) THEN "next" ELSE "continue"
    ELSE IF ev.kind = "scroll_up" THEN
        IF Contains(sa, ev.x, ev.y) THEN "prev" ELSE "continue"
    ELSE IF IsMouse(ev) /\ HoverOf(ev, pa, na, hv) # hv THEN "hover"
    ELSE "continue"

HandlePage(kind, arm, p, n) ==
    IF arm = "prev" THEN PrevPageOf(kind, p)
    ELSE IF arm = "next" THEN NextPageOf(kind, p, n)
    ELSE p

M_HandleOutcome(kind, arm, p, n) ==
    IF arm = "prev" THEN
        IF PrevPageRetOf(kind, p) THEN PageOutcome(p) ELSE Unchanged
    ELSE IF arm = "next" THEN
        IF NextPageOf(kind, p, n) # p THEN PageOutcome(p) ELSE Unchanged
    ELSE IF arm = "hover" THEN Changed
    ELSE Continue
HandleOutcome(kind, arm, p, n) ==
    IF arm = "prev" THEN
        IF PrevPageRetOf(kind, p) THEN PageOutcome(PrevPageOf(kind, p)) ELSE Unchanged
    ELSE IF arm = "next" THEN
        IF NextPageOf(kind, p, n) # p THEN PageOutcome(NextPageOf(kind, p, n))
        ELSE Unchanged
    ELSE IF arm = "hover" THEN Changed
    ELSE Continue

\* the hover arm is only evaluated if no earlier arm matched
HandleHover(ev, arm, pa, na, hv) ==
    IF arm \in {"hover", "continue"} /\ IsMouse(ev)
          /\ ev.kind \notin {"scroll_down", "scroll_up"}
    THEN HoverOf(ev, pa, na, hv)
    ELSE hv

Handle(ev) ==
    /\ Idle
    /\ LET arm == HandleArm(ev, prev_area, next_area, scroll_area, hover)
       IN  /\ page' = HandlePage(pager, arm, page, num_pages(layout))
           /\ ret' = HandleOutcome(pager, arm, page, num_pages(layout))
           /\ hover' = HandleHover(ev, arm, prev_area, next_area, hover)
    /\ old_page' = page
    /\ call' = [op |-> "handle", arg |-> 0, ev |-> ev]
    /\ UNCHANGED <<miscVars, choiceVars, clipVars, pager, layout, geomVars, panicked, phase, buf, wstate>>

\* ------------------------------------------------------------------------
\* SinglePager::into_buffer / DualPager::into_buffer
\* ------------------------------------------------------------------------
NavWidth == 5

SingleGeom(a, block) ==
    LET wa == PagerInner(a, block)
        p4 == SatSub(wa.width, NavWidth)
    IN  [widget_area1 |-> wa,
         widget_area2 |-> RectDefault,
         divider_area |-> RectDefault,
         prev_area |-> RectNew(wa.x, a.y, NavWidth, 1),
         next_area |-> RectNew(wa.x + p4, a.y, NavWidth, 1),
         scroll_area |-> RectNew(a.x + 1, a.y, SatSub(a.width, 2), 1)]

\* `widget_area.width - p1` and `widget_area.x + p4` are plain u16
\* arithmetic: with overflow checks they abort, without they wrap.
DualOverflows(a, block) ==
    LET wa == PagerInner(a, block)
    IN  wa.width < NavWidth \/ wa.x + (wa.width - NavWidth) >= U16

DualGeom(a, block) ==
    LET wa == PagerInner(a, block)
        p4 == (wa.width - NavWidth) % U16
        p1 == SatSub(wa.width, 1) \div 2
        p2 == SatSub(SatSub(wa.width, 1), p1)
    IN  [widget_area1 |-> RectNew(wa.x, wa.y, p1, wa.height),
         widget_area2 |-> RectNew(wa.x + p1 + 1, wa.y, p2, wa.height),
         divider_area |-> RectNew(wa.x + p1, wa.y, 1, wa.height),
         prev_area |-> RectNew(wa.x, a.y, NavWidth, 1),
         next_area |-> RectNew((wa.x + p4) % U16, a.y, NavWidth, 1),
         scroll_area |-> RectNew(a.x + 1, a.y, SatSub(a.width, 2), 1)]

\* DualPager::inner_left / inner_right / layout_width
inner_left(a, block) ==
    LET inner == PagerInner(a, block)
    IN  [inner EXCEPT !.width = SatSub(inner.width, 1) \div 2]
inner_right(a, block) ==
    LET inner == PagerInner(a, block)
    IN  [inner EXCEPT !.width = SatSub(inner.width,
                                       1 + (SatSub(inner.width, 1) \div 2))]
layout_width(a, block) ==
    Min(inner_left(a, block).width, inner_right(a, block).width)

GeomOf(kind, a, block) ==
    IF kind = "Single" THEN SingleGeom(a, block) ELSE DualGeom(a, block)

\* the page after into_buffer: "clip page nr"
M_IntoBufferPage(kind, p, n) == p
IntoBufferPage(kind, p, n) == SetPageOf(kind, p, n, p)

IntoBuffer(a, block, slots) ==
    /\ Idle
    /\ old_page' = page
    /\ call' = Call("into_buffer", slots)
    /\ ret' = NoRet
    /\ area' = a
    /\ \/ \* overflow check fails after state.area was assigned
          /\ pager = "Dual" /\ DualOverflows(a, block)
          /\ panicked' = TRUE
          /\ UNCHANGED <<miscVars, choiceVars, clipVars, pager, page, layout, widget_area1, widget_area2,
                         divider_area, prev_area, next_area, scroll_area,
                         hover, phase, buf, wstate>>
       \/ LET g == GeomOf(pager, a, block)
              l == RunLayout(slots, g.widget_area1)
              p == IntoBufferPage(pager, page, num_pages(l))
          IN  /\ widget_area1' = g.widget_area1
              /\ widget_area2' = g.widget_area2
              /\ divider_area' = g.divider_area
              /\ prev_area' = g.prev_area
              /\ next_area' = g.next_area
              /\ scroll_area' = g.scroll_area
              /\ layout' = l
              /\ page' = p
              /\ buf' = [page |-> p, widget_area1 |-> g.widget_area1,
                         widget_area2 |-> g.widget_area2, layout |-> l]
              /\ phase' = "buffer"
              /\ UNCHANGED <<miscVars, choiceVars, clipVars, pager, hover, panicked, wstate>>

\* ------------------------------------------------------------------------
\* SinglePagerBuffer / DualPagerBuffer
\* ------------------------------------------------------------------------
None == [some |-> FALSE, area |-> RectDefault]
Some(r) == [some |-> TRUE, area |-> r]

Shifted(r, origin) == RectNew(r.x + origin.x, r.y + origin.y, r.width, r.height)

M_SingleLocate(b, pa) ==
    IF b.page = pa.page
    THEN Some(RectNew(pa.area.x + b.widget_area1.x, pa.area.y,
                      pa.area.width, pa.area.height))
    ELSE None
SingleLocate(b, pa) ==
    IF b.page = pa.page THEN Some(Shifted(pa.area, b.widget_area1)) ELSE None

\* locate_handle / locate_area of DualPagerBuffer
M_DualLocate(b, pa) ==
    IF b.page = pa.page THEN Some(Shifted(pa.area, b.widget_area1)) ELSE None
DualLocate(b, pa) ==
    IF b.page = pa.page THEN Some(Shifted(pa.area, b.widget_area1))
    ELSE IF b.page + 1 = pa.page THEN Some(Shifted(pa.area, b.widget_area2))
    ELSE None

LocateOf(kind, b, pa) ==
    IF kind = "Single" THEN SingleLocate(b, pa) ELSE DualLocate(b, pa)

locate_handle(kind, b, h) == LocateOf(kind, b, buf_handle(b.layout, h))
locate_area(kind, b, r) == LocateOf(kind, b, buf_area(b.layout, r))

\* hidden(state): state.relocate((0, 0), Rect::default())
Hidden(ws) == relocate_area(ws, 0, 0, RectDefault)

\* what a render call does to the widget state: the widget is rendered at
\* the located area and caches it, or the state is hidden
RenderState(loc, ws) == IF loc.some THEN loc.area ELSE Hidden(ws)
RenderRet(loc) ==
    IF loc.some THEN [tag |-> "drawn", page |-> 0, at |-> loc.area]
    ELSE [tag |-> "hidden", page |-> 0, at |-> RectDefault]

InBuffer == phase = "buffer" /\ ~panicked

\* render(widget, handle, tag, state) / render_stateful_handle
RenderStatefulHandle(h) ==
    /\ InBuffer
    /\ h \in Handles(buf.layout)
    /\ LET loc == locate_handle(pager, buf, h)
       IN  /\ wstate' = RenderState(loc, wstate)
           /\ ret' = RenderRet(loc)
    /\ call' = Call("render_handle", h)
    /\ old_page' = page
    /\ UNCHANGED <<miscVars, choiceVars, clipVars, pager, page, layout, geomVars, hover, panicked, phase, buf>>

\* render_area(widget, area, state) / render_stateful
RenderStatefulArea(h) ==
    /\ InBuffer
    /\ h \in Handles(buf.layout)
    /\ LET loc == locate_area(pager, buf, layout_handle(buf.layout, h))
       IN  /\ wstate' = RenderState(loc, wstate)
           /\ ret' = RenderRet(loc)
    /\ call' = Call("render_area", h)
    /\ old_page' = page
    /\ UNCHANGED <<miscVars, choiceVars, clipVars, pager, page, layout, geomVars, hover, panicked, phase, buf>>

\* is_visible_handle (is_visible of SinglePagerBuffer) / is_visible_area
is_visible_handle(kind, b, h) == buf_handle(b.layout, h).page = b.page
is_visible_area(kind, b, r) == buf_area(b.layout, r).page = b.page

IsVisibleHandle(h) ==
    /\ InBuffer
    /\ h \in Handles(buf.layout)
    /\ ret' = BoolRet(is_visible_handle(pager, buf, h))
    /\ call' = Call("is_visible_handle", h)
    /\ old_page' = page
    /\ UNCHANGED <<miscVars, choiceVars, clipVars, pager, page, layout, geomVars, hover, panicked, phase, buf, wstate>>

IsVisibleArea(h) ==
    /\ InBuffer
    /\ h \in Handles(buf.layout)
    /\ ret' = BoolRet(is_visible_area(pager, buf, layout_handle(buf.layout, h)))
    /\ call' = Call("is_visible_area", h)
    /\ old_page' = page
    /\ UNCHANGED <<miscVars, choiceVars, clipVars, pager, page, layout, geomVars, hover, panicked, phase, buf, wstate>>

\* StatefulWidget for SinglePagerWidget / DualPagerWidget: the indicators
NavStep(kind) == IF kind = "Single" THEN 1 ELSE 2
NavRet(kind, p, n) ==
    [tag |-> "nav",
     page |-> (IF p > 0 THEN 1 ELSE 0)
                + (IF p + NavStep(kind) < n THEN 2 ELSE 0),
     at |-> RectDefault]

WidgetRender ==
    /\ InBuffer
    /\ ret' = NavRet(pager, page, num_pages(layout))
    /\ call' = Call("render", 0)
    /\ old_page' = page
    /\ phase' = "idle"
    /\ buf' = NoBuf
    /\ UNCHANGED <<miscVars, choiceVars, clipVars, pager, page, layout, geomVars, hover, panicked, wstate>>

\* ------------------------------------------------------------------------
\* rat_scrolled::ScrollState as the Clipper and the View use it
\* ------------------------------------------------------------------------
ScrollDefault == [offset |-> 0, max_offset |-> 0, page_len |-> 0]
set_offset(sc, o) == [sc EXCEPT !.offset = Min(o, sc.max_offset)]
set_max_offset(sc, m) == [sc EXCEPT !.max_offset = m]
set_page_len(sc, l) == [sc EXCEPT !.page_len = l]
scroll_back(sc, d) == [sc EXCEPT !.offset = Min(SatSub(sc.offset, d), sc.max_offset)]
scroll_forward(sc, d) == [sc EXCEPT !.offset = Min(sc.offset + d, sc.max_offset)]
scroll_to_pos(sc, pos) ==
    IF pos >= sc.offset + sc.page_len
    THEN [sc EXCEPT !.offset = Min(SatSub(pos + 1, sc.page_len), sc.max_offset)]
    ELSE IF pos < sc.offset THEN [sc EXCEPT !.offset = pos]
    ELSE sc

\* ScrollArea::inner: the area inside the scroll bars
ScrollInner(a, bars) ==
    IF bars THEN Rect(a.x, a.y, SatSub(a.width, 1), SatSub(a.height, 1)) ELSE a

\* ClipperLayout: the extent of the laid out content
max_layout_pos(l) == [x |-> l.x + l.width, y |-> l.y + l.height]
ext_area(l) == l

\* ------------------------------------------------------------------------
\* ratatui::buffer::Buffer: an area and its cells in row order.  A cell is
\* Blank (Cell::default), Background (a cell of the frame that was drawn
\* before the Clipper/View), or the mark a widget has drawn.
\* ------------------------------------------------------------------------
Blank == 0
Background == 0 - 1
CellCount(a) == a.width * a.height
NoBuffer == [some |-> FALSE, area |-> RectDefault, content |-> <<>>]
BufferFilled(a, c) ==
    [some |-> TRUE, area |-> a, content |-> [i \in 1 .. CellCount(a) |-> c]]
BufferEmpty(a) == BufferFilled(a, Blank)
reset(b) == [b EXCEPT !.content = [i \in DOMAIN b.content |-> Blank]]
resize(b, a) ==
    [some |-> TRUE, area |-> a,
     content |-> [i \in 1 .. CellCount(a) |->
                    IF i <= Len(b.content) THEN b.content[i] ELSE Blank]]
\* the 0-based index of the cell at (x, y)
index_of(b, x, y) == (y - b.area.y) * b.area.width + (x - b.area.x)
\* the position of the cell with the 1-based index i
CellX(b, i) == b.area.x + ((i - 1) % b.area.width)
CellY(b, i) == b.area.y + ((i - 1) \div b.area.width)
CellAt(b, x, y) == b.content[index_of(b, x, y) + 1]

\* Rect::intersects
Intersects(a, b) ==
    /\ a.x < b.x + b.width /\ a.x + a.width > b.x
    /\ a.y < b.y + b.height /\ a.y + a.height > b.y

\* A widget rendered at the area ar marks the cells of ar that the buffer
\* has, each with its position inside ar.
Mark(ar, x, y) == 1 + (x - ar.x) + (y - ar.y) * ar.width
Draw(b, ar) ==
    [b EXCEPT !.content =
        [i \in DOMAIN b.content |->
            IF Contains(ar, CellX(b, i), CellY(b, i))
            THEN Mark(ar, CellX(b, i), CellY(b, i))
            ELSE b.content[i]]]

\* the frame: the physical buffer the terminal hands to the final render
Screen == Rect(0, 0, 8, 5)
FrameBuffer == BufferFilled(Screen, Background)

\* ------------------------------------------------------------------------
\* Clipper::into_buffer / View::into_buffer
\* ------------------------------------------------------------------------
\* the scroll states after into_buffer
M_ClipperScroll(sc, extent, len) ==
    set_max_offset(set_page_len(sc, len), Max(extent - len, len - extent))
ClipperScroll(sc, extent, len) ==
    set_max_offset(set_page_len(sc, len), SatSub(extent, len))
ViewScroll(sc, extent, len) ==
    set_page_len(set_max_offset(sc, SatSub(extent, len)), len)
IntoBufferScroll(kind, sc, extent, len) ==
    IF kind = "Clipper" THEN ClipperScroll(sc, extent, len)
    ELSE ViewScroll(sc, extent, len)

ExtentX(kind, l) == IF kind = "Clipper" THEN max_layout_pos(l).x ELSE l.width
ExtentY(kind, l) == IF kind = "Clipper" THEN max_layout_pos(l).y ELSE l.height

\* buf_offset_x / buf_offset_y
ClipperBufOffset(off, origin) == (off - origin) % U16
ViewBufOffset(off, origin) == (off + origin) % U16
BufOffset(kind, off, l_origin) ==
    IF kind = "Clipper" THEN ClipperBufOffset(off, l_origin)
    ELSE ViewBufOffset(off, l_origin)

\* the buffer a frame works with: the one kept in the state, reset and
\* resized, or a new one
M_TakeBuffer(sb, a) == IF sb.some THEN resize(sb, a) ELSE BufferEmpty(a)
TakeBuffer(sb, a) == IF sb.some THEN resize(reset(sb), a) ELSE BufferEmpty(a)

NoClipBuf == [layout |-> RectDefault, buf_offset_x |-> 0, buf_offset_y |-> 0,
              buffer |-> NoBuffer, widget_area |-> RectDefault]
ClipCall(op, arg) == [op |-> op, arg |-> arg, at |-> RectDefault]
ClipCallAt(op, r) == [op |-> op, arg |-> 0, at |-> r]

ClipInit ==
    /\ clip \in {"Clipper", "View"}
    /\ hscroll = ScrollDefault
    /\ vscroll = ScrollDefault
    /\ c_area = RectDefault
    /\ c_widget_area = RectDefault
    /\ c_layout = RectDefault
    /\ c_phase = "idle"
    /\ c_buf = NoClipBuf
    /\ c_call = ClipCall("new", 0)
    /\ c_buffer = NoBuffer
    /\ c_wstate = RectDefault
    /\ c_ret = "none"
    /\ c_reused = FALSE
    /\ c_done = FALSE
    /\ c_panicked = FALSE
    /\ phys = FrameBuffer

ClipIdle == c_phase = "idle" /\ ~c_panicked

ClipIntoBuffer(a, bars, content) ==
    /\ ClipIdle
    /\ LET wa == ScrollInner(a, bars)
           hs == IntoBufferScroll(clip, hscroll, ExtentX(clip, content), wa.width)
           vs == IntoBufferScroll(clip, vscroll, ExtentY(clip, content), wa.height)
           ea == IF clip = "Clipper" THEN ext_area(content) ELSE content
           buffer_area == IF clip = "Clipper"
                          THEN Rect(0, 0, ea.width, ea.height) ELSE ea
       IN  /\ c_area' = a
           /\ c_layout' = content
           /\ c_widget_area' = wa
           /\ hscroll' = hs
           /\ vscroll' = vs
           /\ c_buf' = [layout |-> content,
                        buf_offset_x |-> BufOffset(clip, hs.offset, ea.x),
                        buf_offset_y |-> BufOffset(clip, vs.offset, ea.y),
                        buffer |-> TakeBuffer(c_buffer, buffer_area),
                        widget_area |-> wa]
    /\ c_buffer' = NoBuffer
    /\ c_reused' = c_buffer.some
    /\ c_ret' = "none"
    /\ c_phase' = "buffer"
    /\ c_call' = ClipCall("into_buffer", 0)
    /\ UNCHANGED <<clip, c_wstate, c_done, c_panicked, phys, pagerVars, choiceVars, miscVars>>

\* ------------------------------------------------------------------------
\* ClipperBuffer / ViewBuffer: rendering into the off-screen buffer
\* ------------------------------------------------------------------------
\* ClipperLayout::buf_area: a layout rectangle in buffer coordinates, the
\* empty rectangle if it lies outside the buffer
clip_buf_area(ext, r) ==
    IF Intersects(r, ext) THEN Rect(r.x - ext.x, r.y - ext.y, r.width, r.height)
    ELSE RectDefault

\* locate_area: ClipperBuffer asks the layout, ViewBuffer returns the area
ClipLocate(kind, l, r) ==
    IF kind = "Clipper" THEN clip_buf_area(ext_area(l), r) ELSE r

\* the test of render_stateful
ClipVisible(kind, b, r) ==
    IF kind = "Clipper" THEN ~IsEmpty(ClipLocate(kind, b.layout, r))
    ELSE Intersects(r, b.buffer.area)

\* u16 as i16
AsI16(v) == IF v >= 32768 THEN v - U16 ELSE v
\* shift(): from buffer coordinates to screen coordinates
shift(b) == [x |-> AsI16(b.widget_area.x) - AsI16(b.buf_offset_x),
             y |-> AsI16(b.widget_area.y) - AsI16(b.buf_offset_y)]

\* relocate(state) / hidden(state)
M_ClipRelocate(b, ws) ==
    relocate_area(ws, shift(b).x, shift(b).y, b.buffer.area)
ClipRelocate(b, ws) ==
    relocate_area(ws, shift(b).x, shift(b).y, b.widget_area)
ClipHidden(ws) == relocate_area(ws, 0, 0, RectDefault)

\* render_stateful(widget, area, state): the widget caches the area it is
\* rendered at, then the state is relocated
ClipRenderStateful(ar) ==
    /\ c_phase = "buffer" /\ ~c_panicked
    /\ IF ClipVisible(clip, c_buf, ar)
       THEN LET loc == ClipLocate(clip, c_buf.layout, ar)
            IN  /\ c_buf' = [c_buf EXCEPT !.buffer = Draw(@, loc)]
                /\ c_wstate' = ClipRelocate(c_buf, loc)
                /\ c_ret' = "drawn"
       ELSE /\ c_wstate' = ClipHidden(c_wstate)
            /\ c_ret' = "hidden"
            /\ UNCHANGED c_buf
    /\ c_call' = ClipCallAt("render_stateful", ar)
    /\ UNCHANGED <<clip, hscroll, vscroll, c_area, c_widget_area, c_layout,
                   c_phase, c_buffer, c_reused, c_done, c_panicked, phys,
                   pagerVars, choiceVars, miscVars>>

ClipBufferUnchanged ==
    UNCHANGED <<clip, hscroll, vscroll, c_area, c_widget_area, c_layout,
                c_phase, c_buffer, c_wstate, c_reused, c_done, c_panicked,
                phys, pagerVars, choiceVars, miscVars>>

\* ClipperBuffer::render_widget(widget, area)
ClipRenderWidget(ar) ==
    /\ c_phase = "buffer" /\ ~c_panicked /\ clip = "Clipper"
    /\ LET loc == ClipLocate(clip, c_buf.layout, ar)
       IN  IF ~IsEmpty(loc)
           THEN c_buf' = [c_buf EXCEPT !.buffer = Draw(@, loc)] /\ c_ret' = "drawn"
           ELSE c_buf' = c_buf /\ c_ret' = "skipped"
    /\ c_call' = ClipCallAt("render_widget", ar)
    /\ ClipBufferUnchanged

\* ClipperBuffer::render_widget_handle(widget, handle, tag), ar the area
\* the layout holds for (handle, tag)
ClipRenderWidgetHandle(ar) ==
    /\ c_phase = "buffer" /\ ~c_panicked /\ clip = "Clipper"
    /\ LET loc == ClipLocate(clip, c_buf.layout, ar)
       IN  IF IsEmpty(loc)
           THEN c_buf' = [c_buf EXCEPT !.buffer = Draw(@, loc)] /\ c_ret' = "drawn"
           ELSE c_buf' = c_buf /\ c_ret' = "skipped"
    /\ c_call' = ClipCallAt("render_widget_handle", ar)
    /\ ClipBufferUnchanged

\* ------------------------------------------------------------------------
\* StatefulWidget for ClipperWidget / ViewWidget: the copy into the frame
\* ------------------------------------------------------------------------
copy_width(wa, b) == Min(wa.width, b.area.width)

\* index_of(x, y) and the slice of n cells from it: `checked` tells whether
\* index_of verifies that the position lies in the area of the buffer
RowOk(b, x, y, n, checked) ==
    /\ checked => Contains(b.area, x, y)
    /\ index_of(b, x, y) >= 0
    /\ index_of(b, x, y) + n <= Len(b.content)

CopyOk(b, tgt, wa, checked, y) ==
    /\ RowOk(b.buffer, b.buf_offset_x, b.buf_offset_y + y,
             copy_width(wa, b.buffer), checked)
    /\ RowOk(tgt, wa.x, wa.y + y, copy_width(wa, b.buffer), checked)

\* the number of rows copied before the loop ends or a check fails
RowsCopied(b, tgt, wa, checked) ==
    LET bad == {y \in 0 .. (wa.height - 1) : ~CopyOk(b, tgt, wa, checked, y)}
    IN  IF bad = {} THEN wa.height
        ELSE CHOOSE y \in bad : \A z \in bad : y <= z

\* the frame after the rows 0 .. n-1 were copied
M_CopyRows(b, tgt, wa, n) ==
    [tgt EXCEPT !.content =
        [j \in DOMAIN tgt.content |->
            LET rows == {y \in 0 .. (n - 1) :
                            /\ j > index_of(tgt, wa.x, wa.y + y)
                            /\ j <= index_of(tgt, wa.x, wa.y + y)
                                        + copy_width(wa, b.buffer)}
            IN  IF rows = {} THEN tgt.content[j]
                ELSE LET y == CHOOSE r \in rows : \A z \in rows : r >= z
                     IN  b.buffer.content[
                             index_of(b.buffer, b.buffer.area.x,
                                      b.buffer.area.y + y)
                               + (j - index_of(tgt, wa.x, wa.y + y))]]]
CopyRows(b, tgt, wa, n) ==
    [tgt EXCEPT !.content =
        [j \in DOMAIN tgt.content |->
            LET rows == {y \in 0 .. (n - 1) :
                            /\ j > index_of(tgt, wa.x, wa.y + y)
                            /\ j <= index_of(tgt, wa.x, wa.y + y)
                                        + copy_width(wa, b.buffer)}
            IN  IF rows = {} THEN tgt.content[j]
                ELSE LET y == CHOOSE r \in rows : \A z \in rows : r >= z
                     IN  b.buffer.content[
                             index_of(b.buffer, b.buf_offset_x,
                                      b.buf_offset_y + y)
                               + (j - index_of(tgt, wa.x, wa.y + y))]]]

\* state.buffer = Some(self.buffer)
M_KeepBuffer(b) == NoBuffer
KeepBuffer(b) == b

\* render(area, buf, state) with area = state.area and buf the frame
ClipRender ==
    /\ c_phase = "buffer" /\ ~c_panicked
    /\ \E checked \in BOOLEAN :
          LET n == RowsCopied(c_buf, FrameBuffer, c_widget_area, checked)
          IN  /\ phys' = CopyRows(c_buf, FrameBuffer, c_widget_area, n)
              /\ IF n = c_widget_area.height
                 THEN /\ c_buffer' = KeepBuffer(c_buf.buffer)
                      /\ c_done' = TRUE
                      /\ UNCHANGED c_panicked
                 ELSE /\ c_panicked' = TRUE
                      /\ UNCHANGED <<c_buffer, c_done>>
    /\ c_phase' = "idle"
    /\ c_buf' = NoClipBuf
    /\ c_ret' = "none"
    /\ c_call' = ClipCall("render", 0)
    /\ UNCHANGED <<clip, hscroll, vscroll, c_area, c_widget_area, c_layout,
                   c_wstate, c_reused, pagerVars, choiceVars, miscVars>>

\* ------------------------------------------------------------------------
\* ClipperState / ViewState: offsets and scrolling
\* ------------------------------------------------------------------------
ClipFrame == <<clip, c_area, c_widget_area, c_layout, c_phase, c_buf,
               c_buffer, c_wstate, c_ret, c_reused, c_done, c_panicked, phys,
               pagerVars, choiceVars, miscVars>>

SetHorizontalOffset(o) ==
    /\ ClipIdle
    /\ hscroll' = set_offset(hscroll, o)
    /\ c_call' = ClipCall("set_horizontal_offset", o)
    /\ UNCHANGED <<vscroll, ClipFrame>>

SetVerticalOffset(o) ==
    /\ ClipIdle
    /\ vscroll' = set_offset(vscroll, o)
    /\ c_call' = ClipCall("set_vertical_offset", o)
    /\ UNCHANGED <<hscroll, ClipFrame>>

HorizontalScrollTo(pos) ==
    /\ ClipIdle
    /\ hscroll' = scroll_to_pos(hscroll, pos)
    /\ c_call' = ClipCall("horizontal_scroll_to", pos)
    /\ UNCHANGED <<vscroll, ClipFrame>>

VerticalScrollTo(pos) ==
    /\ ClipIdle
    /\ vscroll' = scroll_to_pos(vscroll, pos)
    /\ c_call' = ClipCall("vertical_scroll_to", pos)
    /\ UNCHANGED <<hscroll, ClipFrame>>

ScrollUp(d) ==
    /\ ClipIdle
    /\ vscroll' = scroll_back(vscroll, d)
    /\ c_call' = ClipCall("scroll_up", d)
    /\ UNCHANGED <<hscroll, ClipFrame>>

ScrollDown(d) ==
    /\ ClipIdle
    /\ vscroll' = scroll_forward(vscroll, d)
    /\ c_call' = ClipCall("scroll_down", d)
    /\ UNCHANGED <<hscroll, ClipFrame>>

ScrollLeft(d) ==
    /\ ClipIdle
    /\ hscroll' = scroll_back(hscroll, d)
    /\ c_call' = ClipCall("scroll_left", d)
    /\ UNCHANGED <<vscroll, ClipFrame>>

ScrollRight(d) ==
    /\ ClipIdle
    /\ hscroll' = scroll_forward(hscroll, d)
    /\ c_call' = ClipCall("scroll_right", d)
    /\ UNCHANGED <<vscroll, ClipFrame>>

\* ------------------------------------------------------------------------
\* ChoiceState: the cached areas of a Choice rendered through a pager
\* ------------------------------------------------------------------------
ChoiceDefault ==
    [area |-> RectDefault, item_area |-> RectDefault,
     button_area |-> RectDefault, item_areas |-> <<>>,
     popup_active |-> FALSE]

\* block.inner_if_some(area)
InnerIfSome(a, block) == IF block THEN BlockInner(a) ELSE a

\* render_choice: the areas of the main widget
M_render_choice(st, a, block) ==
    LET inner == InnerIfSome(a, block)
    IN  [st EXCEPT
            !.area = a,
            !.item_area =
                IF IsEmpty(st.item_area)
                THEN RectNew(inner.x, inner.y, SatSub(inner.width, 3),
                             inner.height)
                ELSE st.item_area,
            !.button_area =
                RectNew(SatSub(inner.x + inner.width, Min(3, inner.width)),
                        inner.y, 3, inner.height)]
render_choice(st, a, block) ==
    LET inner == InnerIfSome(a, block)
    IN  [st EXCEPT
            !.area = a,
            !.item_area =
                RectNew(inner.x, inner.y, SatSub(inner.width, 3), inner.height),
            !.button_area =
                RectNew(SatSub(inner.x + inner.width, Min(3, inner.width)),
                        inner.y, 3, inner.height)]

\* render_popup: one item area per row of popup.widget_area while the
\* popup is active
render_popup(st, inner) ==
    IF st.popup_active
    THEN [st EXCEPT !.item_areas =
             [k \in 1 .. inner.height |->
                 RectNew(inner.x, inner.y + (k - 1), inner.width, 1)]]
    ELSE st

\* rat_reloc::relocate_areas
M_relocate_areas(areas, dx, dy, clip_rect) ==
    SelectSeq([k \in DOMAIN areas |->
                   relocate_area(areas[k], dx, dy, clip_rect)],
              LAMBDA r : ~IsEmpty(r))
relocate_areas(areas, dx, dy, clip_rect) ==
    [k \in DOMAIN areas |-> relocate_area(areas[k], dx, dy, clip_rect)]

\* RelocatableState for ChoiceState
ChoiceRelocate(st, dx, dy, clip_rect) ==
    [st EXCEPT
        !.area = relocate_area(st.area, dx, dy, clip_rect),
        !.item_area = relocate_area(st.item_area, dx, dy, clip_rect),
        !.button_area = relocate_area(st.button_area, dx, dy, clip_rect),
        !.item_areas = relocate_areas(st.item_areas, dx, dy, clip_rect)]

ChoiceCall(op, block, drawn, after_hide, at) ==
    [op |-> op, block |-> block, drawn |-> drawn, after_hide |-> after_hide,
     at |-> at]

\* Option<usize> / Option<T>; "panic": the call did not return
NoValue == [kind |-> "None", v |-> 0]
SomeValue(v) == [kind |-> "Some", v |-> v]
Panic == [kind |-> "panic", v |-> 0]
\* "hang": the call loops forever
Hang == [kind |-> "hang", v |-> 0]
ChoiceAlive == ch_value # Panic /\ ch_value # Hang

\* the first characters of the items; c.to_lowercase()
Chars == {"a", "A", "b"}
Lower(c) == IF c = "A" THEN "a" ELSE c
nav_char(items) == [i \in DOMAIN items |-> Lower(items[i])]
NoFocus == [focus |-> FALSE, lost |-> FALSE]

ChoiceInit ==
    /\ choice = ChoiceDefault
    /\ choice_nohide = ChoiceDefault
    /\ ch_call = ChoiceCall("new", FALSE, FALSE, FALSE, RectDefault)
    /\ ch_washidden = FALSE
    /\ ch_keys = 0
    /\ ch_selected = NoValue
    /\ ch_value = NoValue
    /\ ch_nav = <<>>
    /\ ch_default = NoValue
    /\ ch_focus = NoFocus

\* buffer.render(choice, handle, 0, state): SinglePagerBuffer::render /
\* DualPagerBuffer::render with a ChoiceWidget that has `keys` items
RenderChoice(h, block, keys) ==
    /\ InBuffer
    /\ ChoiceAlive
    /\ h \in Handles(buf.layout)
    /\ LET loc == locate_handle(pager, buf, h)
       IN  IF loc.some
           THEN /\ choice' = render_choice(choice, loc.area, block)
                /\ choice_nohide' = render_choice(choice_nohide, loc.area, block)
                /\ ch_call' = ChoiceCall("render", block, TRUE, ch_washidden,
                                         loc.area)
                /\ ch_washidden' = FALSE
                /\ ch_keys' = keys
                /\ ch_nav' = [i \in 1 .. keys |-> "a"]
                /\ ch_default' = NoValue
           ELSE /\ choice' = ChoiceRelocate(choice, 0, 0, RectDefault)
                /\ ch_call' = ChoiceCall("render", block, FALSE, ch_washidden,
                                         RectDefault)
                /\ ch_washidden' = TRUE
                /\ UNCHANGED <<choice_nohide, ch_keys, ch_nav, ch_default>>
    /\ UNCHANGED <<ch_selected, ch_value, ch_focus, pagerVars, clipVars, miscVars>>

\* popup.render(area, buf, state): StatefulWidget for ChoicePopup, after
\* the frame of the pager
RenderPopup(inner) ==
    /\ phase = "idle" /\ ~panicked
    /\ choice' = render_popup(choice, inner)
    /\ choice_nohide' = render_popup(choice_nohide, inner)
    /\ ch_call' = ChoiceCall("render_popup", FALSE, choice.popup_active,
                             ch_washidden, inner)
    /\ UNCHANGED <<ch_washidden, valueVars, pagerVars, clipVars, miscVars>>

\* set_popup_active
SetPopupActive(active) ==
    /\ phase = "idle" /\ ~panicked
    /\ choice' = [choice EXCEPT !.popup_active = active]
    /\ choice_nohide' = [choice_nohide EXCEPT !.popup_active = active]
    /\ ch_call' = ChoiceCall("set_popup_active", FALSE, FALSE, ch_washidden,
                             RectDefault)
    /\ UNCHANGED <<ch_washidden, valueVars, pagerVars, clipVars, miscVars>>

\* StatefulWidget for ChoiceWidget: render(area, buf, state) on the frame
ChoiceRender(a, block, items, default) ==
    /\ phase = "idle" /\ ~panicked
    /\ ChoiceAlive
    /\ choice' = render_choice(choice, a, block)
    /\ choice_nohide' = render_choice(choice_nohide, a, block)
    /\ ch_call' = ChoiceCall("render", block, TRUE, ch_washidden, a)
    /\ ch_washidden' = FALSE
    /\ ch_nav' = nav_char(items)
    /\ ch_default' = default
    /\ ch_keys' = Len(items)
    /\ UNCHANGED <<ch_selected, ch_value, ch_focus, pagerVars, clipVars, miscVars>>

\* ChoiceState::select
select(keys, sel) ==
    IF keys = 0 THEN NoValue
    ELSE IF sel.kind = "Some" THEN SomeValue(Min(sel.v, keys - 1))
    ELSE NoValue

\* ChoiceState::set_value: the index of the key, if there is such a key
set_value(keys, selected, key) ==
    IF key < keys THEN SomeValue(key) ELSE selected

\* ChoiceState::value_opt / value_opt_ref: self.keys[selected]
value_opt(keys, selected) ==
    IF selected.kind = "Some"
    THEN IF selected.v < keys THEN SomeValue(selected.v) ELSE Panic
    ELSE NoValue

ValueCall(op) == ChoiceCall(op, FALSE, FALSE, ch_washidden, RectDefault)
ValueUnchanged ==
    UNCHANGED <<choice, choice_nohide, ch_washidden, ch_keys, ch_nav,
                ch_default, ch_focus, pagerVars, clipVars, miscVars>>

ChoiceSelect(sel) ==
    /\ ChoiceAlive
    /\ ch_selected' = select(ch_keys, sel)
    /\ ch_call' = ValueCall("select")
    /\ UNCHANGED ch_value
    /\ ValueUnchanged

ChoiceSetValue(key) ==
    /\ ChoiceAlive
    /\ ch_selected' = set_value(ch_keys, ch_selected, key)
    /\ ch_call' = ValueCall("set_value")
    /\ UNCHANGED ch_value
    /\ ValueUnchanged

ChoiceValueOpt ==
    /\ ChoiceAlive
    /\ ch_value' = value_opt(ch_keys, ch_selected)
    /\ ch_call' = ValueCall("value_opt")
    /\ UNCHANGED ch_selected
    /\ ValueUnchanged

\* ChoiceState::select_by_char: the loop over idx. It ends at the selected
\* index or at an item with the character c; a loop that comes back to an
\* index it has tested already never ends.
RECURSIVE SelectLoop(_, _, _, _, _)
SelectLoop(nav, selected, c, idx0, seen) ==
    LET idx == IF idx0 >= Len(nav) THEN 0 ELSE idx0
    IN  IF idx = selected THEN [ret |-> "false", idx |-> idx]
        ELSE IF nav[idx + 1] = c THEN [ret |-> "true", idx |-> idx]
        ELSE IF idx \in seen THEN [ret |-> "hang", idx |-> idx]
        ELSE SelectLoop(nav, selected, c, idx + 1, seen \cup {idx})

M_select_by_char(nav, sel, c) ==
    IF Len(nav) = 0 THEN [selected |-> sel, ret |-> "false"]
    ELSE LET selected == IF sel.kind = "Some" THEN sel.v ELSE 0
             r == SelectLoop(nav, selected, c, selected + 1, {})
         IN  [selected |-> IF r.ret = "true" THEN SomeValue(r.idx) ELSE sel,
              ret |-> r.ret]
select_by_char(nav, sel, c) ==
    IF Len(nav) = 0 THEN [selected |-> sel, ret |-> "false"]
    ELSE LET selected == IF sel.kind = "Some" THEN sel.v ELSE 0
             r == SelectLoop(nav, selected, Lower(c), selected + 1, {})
         IN  [selected |-> IF r.ret = "true" THEN SomeValue(r.idx) ELSE sel,
              ret |-> r.ret]

\* ChoiceState::move_to / move_down / move_up / set_default_value
move_to(keys, n) == select(keys, SomeValue(n))
M_move_down(keys, sel, n) ==
    IF keys = 0 THEN NoValue
    ELSE IF sel.kind = "Some" THEN SomeValue(sel.v + n)
    ELSE SomeValue(0)
move_down(keys, sel, n) ==
    IF keys = 0 THEN NoValue
    ELSE IF sel.kind = "Some" THEN SomeValue(Min(Max(sel.v + n, 0), keys - 1))
    ELSE SomeValue(0)
move_up(keys, sel, n) ==
    IF keys = 0 THEN NoValue
    ELSE IF sel.kind = "Some"
    THEN SomeValue(Min(Max(SatSub(sel.v, n), 0), keys - 1))
    ELSE SomeValue(keys - 1)
set_default_value(keys, sel, default) ==
    IF default.kind = "Some" THEN set_value(keys, sel, default.v) ELSE sel

\* the last selection call, its argument and what it returned
SelCall(op, arg, r) ==
    [op |-> op, block |-> FALSE, drawn |-> FALSE, after_hide |-> ch_washidden,
     at |-> RectDefault, arg |-> arg, ret |-> r]
SelUnchanged ==
    UNCHANGED <<ch_washidden, ch_keys, ch_nav, ch_default, pagerVars,
                clipVars, miscVars>>
Selected(op, arg, sel) ==
    /\ ch_selected' = sel
    /\ ch_call' = SelCall(op, arg, IF sel # ch_selected THEN "true" ELSE "false")
    /\ UNCHANGED <<choice, choice_nohide, ch_value, ch_focus>>
    /\ SelUnchanged

ChoiceMoveTo(n) ==
    /\ ChoiceAlive
    /\ Selected("move_to", n, move_to(ch_keys, n))
ChoiceMoveDown(n) ==
    /\ ChoiceAlive
    /\ Selected("move_down", n, move_down(ch_keys, ch_selected, n))
ChoiceMoveUp(n) ==
    /\ ChoiceAlive
    /\ Selected("move_up", n, move_up(ch_keys, ch_selected, n))
ChoiceSetDefaultValue ==
    /\ ChoiceAlive
    /\ Selected("set_default_value", 0,
                set_default_value(ch_keys, ch_selected, ch_default))

ChoiceSelectByChar(c) ==
    /\ ChoiceAlive
    /\ LET r == select_by_char(ch_nav, ch_selected, c)
       IN  /\ ch_selected' = r.selected
           /\ ch_value' = IF r.ret = "hang" THEN Hang ELSE ch_value
           /\ ch_call' = SelCall("select_by_char", c, r.ret)
    /\ UNCHANGED <<choice, choice_nohide, ch_focus>>
    /\ SelUnchanged

\* rat_focus: the Focus gives the focus to the widget or takes it away
ChoiceFocus(f) ==
    /\ ChoiceAlive
    /\ ch_focus' = [focus |-> f, lost |-> ch_focus.focus /\ ~f]
    /\ ch_call' = SelCall("focus", 0, "none")
    /\ UNCHANGED <<choice, choice_nohide, ch_selected, ch_value>>
    /\ SelUnchanged

\* HandleEvent<_, Regular, Outcome> for ChoiceState, for a key press: the
\* popup flag and the selection after the event
Keys == {"Space", "Enter", "Esc", "Delete", "Down", "Up", "F1"} \cup Chars
M_ChoiceKey(key, focus, active, keys, nav, sel, default) ==
    LET a0 == IF focus.lost THEN FALSE ELSE active
        stay == [active |-> a0, selected |-> sel, ret |-> "none"]
    IN  IF ~focus.focus THEN stay
        ELSE CASE key = "Space" -> [stay EXCEPT !.active = ~a0]
               [] key \in Chars ->
                     LET r == select_by_char(nav, sel, key)
                     IN  [active |-> a0, selected |-> r.selected, ret |-> r.ret]
               [] key \in {"Enter", "Esc"} -> [stay EXCEPT !.active = FALSE]
               [] key = "Delete" ->
                     [stay EXCEPT !.selected = set_default_value(keys, sel, default)]
               [] key = "Down" ->
                     [stay EXCEPT !.selected = move_down(keys, sel, 1)]
               [] key = "Up" ->
                     [stay EXCEPT !.active = TRUE,
                                  !.selected = move_up(keys, sel, 1)]
               [] OTHER -> stay
ChoiceKey(key, focus, active, keys, nav, sel, default) ==
    LET a0 == IF focus.lost THEN FALSE ELSE active
        stay == [active |-> a0, selected |-> sel, ret |-> "none"]
    IN  IF ~focus.focus THEN stay
        ELSE CASE key = "Space" -> [stay EXCEPT !.active = ~a0]
               [] key \in Chars ->
                     LET r == select_by_char(nav, sel, key)
                     IN  [active |-> a0, selected |-> r.selected, ret |-> r.ret]
               [] key \in {"Enter", "Esc"} -> [stay EXCEPT !.active = FALSE]
               [] key = "Delete" ->
                     [stay EXCEPT !.selected = set_default_value(keys, sel, default)]
               [] key = "Down" ->
                     [stay EXCEPT !.active = TRUE,
                                  !.selected = move_down(keys, sel, 1)]
               [] key = "Up" ->
                     [stay EXCEPT !.active = TRUE,
                                  !.selected = move_up(keys, sel, 1)]
               [] OTHER -> stay

ChoiceHandle(key) ==
    /\ ChoiceAlive
    /\ LET r == ChoiceKey(key, ch_focus, choice.popup_active, ch_keys, ch_nav,
                          ch_selected, ch_default)
       IN  /\ choice' = [choice EXCEPT !.popup_active = r.active]
           /\ choice_nohide' = [choice_nohide EXCEPT !.popup_active = r.active]
           /\ ch_selected' = r.selected
           /\ ch_value' = IF r.ret = "hang" THEN Hang ELSE ch_value
           /\ ch_call' = SelCall("handle", key, r.ret)
    /\ UNCHANGED ch_focus
    /\ SelUnchanged

\* ------------------------------------------------------------------------
\* RopeGlyphIter (text) and GlyphIter (textarea): graphemes to glyphs.
\* The graphemes of a text: "a" a narrow letter, "W" a wide letter, "tab",
\* "nl" a line break, "ctl" another ASCII control code.
\* ------------------------------------------------------------------------
GraphemeSet == {"a", "W", "tab", "nl", "ctl"}
Texts == UNION {[1 .. n -> GraphemeSet] : n \in 0 .. MaxLen}
TabWidths == {3, 8}
\* a width that clips nothing
NoWidthLimit == 1000
Widths == {3, NoWidthLimit}

\* unicode_display_width::width
CharWidth(g) == IF g = "W" THEN 2 ELSE 1

\* match g.as_ref(): the length of the glyph at the column col; the
\* iterator over a str has no arm for the tab
M_GlyphLen(kind, g, col, tabs, show_ctrl) ==
    CASE g = "nl" -> IF show_ctrl THEN 1 ELSE 0
      [] g = "tab" -> IF kind = "Str" THEN 1 ELSE tabs
      [] g = "ctl" -> 1
      [] OTHER -> CharWidth(g)
GlyphLen(kind, g, col, tabs, show_ctrl) ==
    CASE g = "nl" -> IF show_ctrl THEN 1 ELSE 0
      [] g = "tab" -> IF kind = "Str" THEN 1 ELSE tabs - (col % tabs)
      [] g = "ctl" -> 1
      [] OTHER -> CharWidth(g)
\* match g.as_ref(): the text of the glyph; "U+2401" and "U+2409" are the
\* entries of CCHAR for the control code and for the tab
M_GlyphText(kind, g, show_ctrl) ==
    CASE g = "nl" -> IF show_ctrl THEN "U+2424" ELSE ""
      [] g = "tab" ->
            IF kind = "Str" THEN IF show_ctrl THEN "U+2409" ELSE "U+FFFD"
            ELSE IF kind = "Area" \/ show_ctrl THEN "U+2409" ELSE " "
      [] g = "ctl" -> "U+FFFD"
      [] OTHER -> g
GlyphText(kind, g, show_ctrl) ==
    CASE g = "nl" -> IF show_ctrl THEN "U+2424" ELSE ""
      [] g = "tab" ->
            IF kind = "Str" THEN IF show_ctrl THEN "U+2409" ELSE "U+FFFD"
            ELSE IF kind = "Area" \/ show_ctrl THEN "U+2409" ELSE " "
      [] g = "ctl" -> IF show_ctrl THEN "U+2401" ELSE "U+FFFD"
      [] OTHER -> g

\* a returned glyph: glyph and len are the fields of Glyph / GDisplay;
\* col, full and partial record where the grapheme starts, its length
\* before clipping and whether it was cut at the offset
NoGlyph == [some |-> FALSE, glyph |-> "", len |-> 0, col |-> 0, full |-> 0,
            partial |-> FALSE]
SomeGlyph(glyph, len, col, full, partial) ==
    [some |-> TRUE, glyph |-> glyph, len |-> len, col |-> col, full |-> full,
     partial |-> partial]

NewIter(kind, text, offset, width, tabs, show_ctrl) ==
    [kind |-> kind, text |-> text, offset |-> offset, width |-> width,
     tabs |-> tabs, show_ctrl |-> show_ctrl, pos |-> 0, col |-> 0]

\* where a glyph of the length len lies relative to the offset
M_LeftClip(it, len) ==
    IF it.col <= it.offset
    THEN IF it.col + len > it.offset THEN "partial" ELSE "skip"
    ELSE "in"
LeftClip(it, len) ==
    IF it.col < it.offset
    THEN IF it.col + len > it.offset THEN "partial" ELSE "skip"
    ELSE "in"

\* the body of the loop of next() for the grapheme g: `ret` tells whether
\* next() returns, `item` what it returns
M_ClipGlyph(it, g) ==
    LET len == GlyphLen(it.kind, g, SatSub(it.col, it.offset), it.tabs,
                        it.show_ctrl)
        glyph == GlyphText(it.kind, g, it.show_ctrl)
        left == LeftClip(it, len)
    IN  IF left = "partial"
        THEN [ret |-> TRUE, full |-> len,
              item |-> SomeGlyph(" ", it.offset - it.col, it.col, len, TRUE)]
        ELSE IF left = "skip"
        THEN [ret |-> FALSE, full |-> len, item |-> NoGlyph]
        ELSE IF it.col < it.offset + it.width
        THEN IF it.col + len > it.offset + it.width
             THEN [ret |-> TRUE, full |-> len,
                   item |-> SomeGlyph(glyph, it.offset + it.width - it.col,
                                      it.col, len, FALSE)]
             ELSE [ret |-> TRUE, full |-> len,
                   item |-> SomeGlyph(glyph, len, it.col, len, FALSE)]
        ELSE [ret |-> TRUE, full |-> len, item |-> NoGlyph]
ClipGlyph(it, g) ==
    LET len == GlyphLen(it.kind, g, it.col, it.tabs, it.show_ctrl)
        glyph == GlyphText(it.kind, g, it.show_ctrl)
        left == LeftClip(it, len)
    IN  IF left = "partial"
        THEN [ret |-> TRUE, full |-> len,
              item |-> SomeGlyph(" ", it.offset - it.col, it.col, len, TRUE)]
        ELSE IF left = "skip"
        THEN [ret |-> FALSE, full |-> len, item |-> NoGlyph]
        ELSE IF it.col < it.offset + it.width
        THEN IF it.col + len > it.offset + it.width
             THEN [ret |-> TRUE, full |-> len,
                   item |-> SomeGlyph(glyph, it.offset + it.width - it.col,
                                      it.col, len, FALSE)]
             ELSE [ret |-> TRUE, full |-> len,
                   item |-> SomeGlyph(glyph, len, it.col, len, FALSE)]
        ELSE [ret |-> TRUE, full |-> len, item |-> NoGlyph]

\* Iterator::next: the iterator afterwards and the returned item
RECURSIVE IterNext(_)
IterNext(it) ==
    IF it.pos >= Len(it.text) THEN [it |-> it, item |-> NoGlyph]
    ELSE LET r == ClipGlyph(it, it.text[it.pos + 1])
             it2 == [it EXCEPT !.pos = @ + 1, !.col = @ + r.full]
         IN  IF r.ret THEN [it |-> it2, item |-> r.item] ELSE IterNext(it2)

GlyphIdle ==
    /\ git = NewIter("Rope", <<>>, 0, NoWidthLimit, 8, FALSE)
    /\ emitted = <<>>
    /\ g_done = FALSE

\* RopeGlyphIter::new + set_offset / set_tabs / set_show_ctrl,
\* GlyphIter::new of the textarea, or GlyphIter::new + set_offset /
\* set_show_ctrl over a str (which has neither tabs nor a width)
GlyphInit ==
    /\ \E text \in Texts, offset \in 0 .. MaxCol, tabs \in TabWidths,
          show_ctrl \in BOOLEAN :
          \/ git = NewIter("Rope", text, offset, NoWidthLimit, tabs, show_ctrl)
          \/ \E width \in Widths :
                git = NewIter("Area", text, offset, width, tabs, show_ctrl)
          \/ git = NewIter("Str", text, offset, NoWidthLimit, 8, show_ctrl)
    /\ emitted = <<>>
    /\ g_done = FALSE

\* one call of next(), until the iterator returns None
GlyphNext ==
    /\ ~g_done
    /\ LET r == IterNext(git)
       IN  /\ git' = r.it
           /\ emitted' = IF r.item.some THEN Append(emitted, r.item) ELSE emitted
           /\ g_done' = ~r.item.some
    /\ UNCHANGED <<pagerVars, clipVars, choiceVars, wordVars, dialogVars>>

\* ------------------------------------------------------------------------
\* Word helpers of text::graphemes on grapheme positions. In a line of
\* text "tab" and "nl" are the graphemes that start with a whitespace.
\* ------------------------------------------------------------------------
is_whitespace(g) == g \in {"tab", "nl"}

IsLineBreak(g) == g = "nl"
NotLineBreak(g) == ~IsLineBreak(g)
str_line_len(s) == Len(SelectSeq(s, NotLineBreak))

\* a usize result: `underflow` tells that a subtraction went below 0
USize(v) == [underflow |-> v < 0, value |-> v]

RECURSIVE next_word_start(_, _)
next_word_start(s, pos) ==
    IF pos >= Len(s) THEN pos
    ELSE IF ~is_whitespace(s[pos + 1]) THEN pos
    ELSE next_word_start(s, pos + 1)

\* the loop of next_word_end
RECURSIVE WordEndLoop(_, _, _)
WordEndLoop(s, pos, init) ==
    IF pos >= Len(s) THEN pos
    ELSE IF init
    THEN WordEndLoop(s, pos + 1, is_whitespace(s[pos + 1]))
    ELSE IF is_whitespace(s[pos + 1]) THEN pos
    ELSE WordEndLoop(s, pos + 1, FALSE)
M_next_word_end(s, pos) == WordEndLoop(s, pos, FALSE)
next_word_end(s, pos) == WordEndLoop(s, pos, TRUE)

\* the loop of prev_word_start over the j graphemes left in the iterator:
\* the number of graphemes left when it ends
RECURSIVE BackWordStart(_, _, _)
BackWordStart(s, j, init) ==
    IF j <= 0 THEN 0
    ELSE IF init
    THEN BackWordStart(s, j - 1, is_whitespace(s[j]))
    ELSE IF is_whitespace(s[j]) THEN j
    ELSE BackWordStart(s, j - 1, FALSE)
\* the loop of prev_word_end
RECURSIVE BackWordEnd(_, _)
BackWordEnd(s, j) ==
    IF j <= 0 THEN 0
    ELSE IF ~is_whitespace(s[j]) THEN j
    ELSE BackWordEnd(s, j - 1)

\* len - pos, nth_back(rpos - 1), the loop, len - rpos
prev_word_start(s, pos) ==
    LET len == str_line_len(s)
        rpos0 == len - pos
        j0 == Len(s) - rpos0
        rpos == rpos0 + (j0 - BackWordStart(s, j0, TRUE))
    IN  IF rpos0 < 0 THEN USize(rpos0) ELSE USize(len - rpos)
prev_word_end(s, pos) ==
    LET len == str_line_len(s)
        rpos0 == len - pos
        j0 == Len(s) - rpos0
        rpos == rpos0 + (j0 - BackWordEnd(s, j0))
    IN  IF rpos0 < 0 THEN USize(rpos0) ELSE USize(len - rpos)

WordCall(op, pos) == [op |-> op, pos |-> pos]

WordIdle ==
    /\ w_text = <<>>
    /\ w_pos = 0
    /\ w_call = WordCall("new", 0)
    /\ w_fail = "none"

\* a line of text and a cursor in it
WordInit ==
    /\ w_text \in Texts
    /\ w_pos \in 0 .. Len(w_text)
    /\ w_call = WordCall("new", 0)
    /\ w_fail = "none"

\* the cursor moves to the result of a helper; a subtraction that goes
\* below 0 panics or wraps around, depending on the build
WordMove(op, r) ==
    /\ w_call' = WordCall(op, w_pos)
    /\ IF r.underflow
       THEN w_fail' \in {"panic", "wrap"} /\ w_pos' = w_pos
       ELSE w_fail' = "none" /\ w_pos' = r.value
    /\ UNCHANGED <<w_text, pagerVars, clipVars, choiceVars, glyphVars, dialogVars>>

NextWordStart ==
    /\ w_fail = "none"
    /\ WordMove("next_word_start", USize(next_word_start(w_text, w_pos)))

NextWordEnd ==
    /\ w_fail = "none"
    /\ WordMove("next_word_end", USize(next_word_end(w_text, w_pos)))

PrevWordStart ==
    /\ w_fail = "none"
    /\ WordMove("prev_word_start", prev_word_start(w_text, w_pos))

PrevWordEnd ==
    /\ w_fail = "none"
    /\ WordMove("prev_word_end", prev_word_end(w_text, w_pos))

\* ------------------------------------------------------------------------
\* MsgDialogState. The message is a sequence of characters, "nl" for the
\* newline; a text is "", "a" or "b". The
\* handlers of the button and of the paragraph are collaborators: every
\* outcome they can return for an event is considered.
\* ------------------------------------------------------------------------
\* title: the title is not empty
DialogDefault == [active |-> FALSE, title |-> FALSE, message |-> <<>>]
MsgTexts == {<<>>, <<"a">>, <<"b">>}

ButtonOutcomes == {"Continue", "Unchanged", "Changed", "Pressed"}
Outcomes == {"Continue", "Unchanged", "Changed"}
DialogEvents == {"Esc", "Enter", "other"}

\* MsgDialogState::clear
DialogCleared(d) == [d EXCEPT !.active = FALSE, !.message = <<>>]

\* MsgDialogState::append
M_append(d, msg) ==
    [d EXCEPT !.active = TRUE,
              !.message = @ \o msg]
append(d, msg) ==
    [d EXCEPT !.active = TRUE,
              !.message = (IF @ # <<>> THEN @ \o <<"nl">> ELSE @) \o msg]

\* the outcome of handle(event, Dialog) for an active dialog: each flow!
\* returns its value unless that is Continue
M_ActiveOutcome(ev, bo, po) ==
    IF bo = "Pressed" THEN "Changed"
    ELSE IF bo # "Continue" THEN bo
    ELSE IF po # "Continue" THEN po
    ELSE IF ev = "Esc" THEN "Changed"
    ELSE "Continue"
ActiveOutcome(ev, bo, po) ==
    IF bo = "Pressed" THEN "Changed"
    ELSE IF bo # "Continue" THEN bo
    ELSE IF po # "Continue" THEN po
    ELSE IF ev = "Esc" THEN "Changed"
    ELSE "Unchanged"

\* the button was pressed, or nobody took the Esc key: the dialog closes
Closes(ev, bo, po) ==
    bo = "Pressed" \/ (bo = "Continue" /\ po = "Continue" /\ ev = "Esc")

DialogCall(op, ev, active, outcome, cause) ==
    [op |-> op, ev |-> ev, active |-> active, outcome |-> outcome,
     closed_by |-> cause]

\* what made handle() close the dialog
CloseCause(ev, bo, po) ==
    IF bo = "Pressed" THEN "Pressed" ELSE IF Closes(ev, bo, po) THEN "Esc" ELSE "none"

DialogIdle ==
    /\ dlg = DialogDefault
    /\ dlg_call = DialogCall("new", "other", FALSE, "Continue", "none")
    /\ dlg_since = <<>>

DialogUnchanged == UNCHANGED <<pagerVars, clipVars, choiceVars, glyphVars, wordVars>>

SetActive(active) ==
    /\ dlg' = [dlg EXCEPT !.active = active]
    /\ dlg_call' = DialogCall("set_active", "other", dlg.active, "Continue", "none")
    /\ UNCHANGED dlg_since
    /\ DialogUnchanged

DialogClear ==
    /\ dlg' = DialogCleared(dlg)
    /\ dlg_call' = DialogCall("clear", "other", dlg.active, "Continue", "none")
    /\ dlg_since' = <<>>
    /\ DialogUnchanged

DialogTitle(title) ==
    /\ dlg' = [dlg EXCEPT !.title = title]
    /\ dlg_call' = DialogCall("title", "other", dlg.active, "Continue", "none")
    /\ UNCHANGED dlg_since
    /\ DialogUnchanged

DialogAppend(msg) ==
    /\ Len(dlg_since) < MaxMsgs
    /\ dlg' = append(dlg, msg)
    /\ dlg_call' = DialogCall("append", "other", dlg.active, "Continue", "none")
    /\ dlg_since' = Append(dlg_since, msg)
    /\ DialogUnchanged

\* HandleEvent<_, Dialog, Outcome> for MsgDialogState
DialogHandle(ev, bo, po) ==
    /\ IF dlg.active
       THEN /\ dlg' = IF Closes(ev, bo, po) THEN DialogCleared(dlg) ELSE dlg
            /\ dlg_call' = DialogCall("handle", ev, TRUE, ActiveOutcome(ev, bo, po),
                                        CloseCause(ev, bo, po))
            /\ dlg_since' = IF Closes(ev, bo, po) THEN <<>> ELSE dlg_since
       ELSE /\ dlg' = dlg
            /\ dlg_call' = DialogCall("handle", ev, FALSE, "Continue", "none")
            /\ UNCHANGED dlg_since
    /\ DialogUnchanged

\* ------------------------------------------------------------------------
\* Specifications
\* ------------------------------------------------------------------------
\* The application navigates and handles events between frames.
PagerNext ==
    \/ \E t \in 0 .. MaxTarget : SetPage(t)
    \/ NextPage
    \/ PrevPage
    \/ \E h \in 0 .. (MaxSlots - 1) : ShowHandle(h)
    \/ \E h \in 0 .. (MaxSlots - 1) : ShowArea(h)
    \/ \E ev \in Events : Handle(ev)
    \/ \E a \in Areas, slots \in 0 .. MaxSlots : IntoBuffer(a, FALSE, slots)
    \/ WidgetRender

InitPager ==
    /\ PagerInit /\ ClipInit /\ ChoiceInit /\ GlyphIdle /\ WordIdle /\ DialogIdle
    /\ clip = "View"

SpecPager == InitPager /\ [][PagerNext]_vars

\* The application pages forward and backward between frames.
NavNext ==
    \/ \E t \in 0 .. MaxTarget : SetPage(t)
    \/ NextPage
    \/ PrevPage
    \/ \E a \in Areas, slots \in 0 .. MaxSlots : IntoBuffer(a, FALSE, slots)
    \/ WidgetRender

SpecNav == InitPager /\ [][NavNext]_vars

\* The application renders a stateful widget inside the frames.
RenderNext ==
    \/ \E t \in 0 .. MaxTarget : SetPage(t)
    \/ \E a \in Areas, block \in BOOLEAN, slots \in 0 .. MaxSlots :
          IntoBuffer(a, block, slots)
    \/ \E h \in 0 .. (MaxSlots - 1) : RenderStatefulHandle(h)
    \/ \E h \in 0 .. (MaxSlots - 1) : RenderStatefulArea(h)
    \/ \E h \in 0 .. (MaxSlots - 1) : IsVisibleHandle(h)
    \/ \E h \in 0 .. (MaxSlots - 1) : IsVisibleArea(h)
    \/ WidgetRender

SpecRender == InitPager /\ [][RenderNext]_vars

\* The application assigns the public field `page` between frames.
PagerRWNext ==
    \/ \E t \in 0 .. MaxTarget : WritePage(t)
    \/ \E t \in 0 .. MaxTarget : SetPage(t)
    \/ \E a \in Areas, slots \in 0 .. MaxSlots : IntoBuffer(a, FALSE, slots)
    \/ WidgetRender

SpecPagerRW == InitPager /\ [][PagerRWNext]_vars

\* The application scrolls a Clipper or a View between frames.
Contents == {Rect(0, 0, 12, 6), Rect(0, 0, 6, 3), Rect(0, 0, 3, 1)}
Viewports == {Rect(0, 0, 4, 2), Rect(1, 1, 7, 4)}

ClipNext ==
    \/ \E a \in Viewports, bars \in BOOLEAN, content \in Contents :
          ClipIntoBuffer(a, bars, content)
    \/ ClipRender
    \/ \E o \in 0 .. MaxOffset : SetHorizontalOffset(o)
    \/ \E o \in 0 .. MaxOffset : SetVerticalOffset(o)
    \/ \E pos \in 0 .. MaxOffset : HorizontalScrollTo(pos)
    \/ \E pos \in 0 .. MaxOffset : VerticalScrollTo(pos)
    \/ \E d \in 1 .. MaxDelta : ScrollUp(d)
    \/ \E d \in 1 .. MaxDelta : ScrollDown(d)
    \/ \E d \in 1 .. MaxDelta : ScrollLeft(d)
    \/ \E d \in 1 .. MaxDelta : ScrollRight(d)

InitClip ==
    /\ PagerInit /\ ClipInit /\ ChoiceInit /\ GlyphIdle /\ WordIdle /\ DialogIdle
    /\ pager = "Single"

SpecClip == InitClip /\ [][ClipNext]_vars

\* The application draws a stateful widget off-screen, shows the frame and
\* sets the offsets between the frames.
BufViewports == {Rect(1, 1, 2, 2), Rect(0, 0, 3, 1)}
BufContents(kind) ==
    {Rect(0, 0, 4, 3), Rect(0, 0, 2, 1)}
        \cup (IF kind = "View" THEN {Rect(1, 1, 3, 2)} ELSE {})
Targets == {Rect(0, 0, 2, 1), Rect(2, 1, 2, 2), Rect(6, 6, 1, 1)}
\* a widget of a View may lie across the edge of the layout of the View
BufTargets(kind) ==
    Targets \cup (IF kind = "View" THEN {Rect(1, 0, 2, 1)} ELSE {})

ClipBufNext ==
    \/ \E a \in BufViewports, bars \in BOOLEAN, content \in BufContents(clip) :
          ClipIntoBuffer(a, bars, content)
    \/ \E ar \in BufTargets(clip) : ClipRenderStateful(ar)
    \/ ClipRender
    \/ \E o \in 0 .. MaxOffset : SetHorizontalOffset(o)
    \/ \E o \in 0 .. MaxOffset : SetVerticalOffset(o)

SpecClipBuf == InitClip /\ [][ClipBufNext]_vars

\* The application draws stateless widgets into a Clipper.
ClipWidgetNext ==
    \/ \E a \in BufViewports, bars \in BOOLEAN, content \in BufContents(clip) :
          ClipIntoBuffer(a, bars, content)
    \/ \E ar \in Targets : ClipRenderWidget(ar)
    \/ \E ar \in Targets : ClipRenderWidgetHandle(ar)
    \/ ClipRender
    \/ \E o \in 0 .. MaxOffset : SetVerticalOffset(o)

SpecClipWidget == InitClip /\ [][ClipWidgetNext]_vars

\* The application renders a Choice through a pager and its popup after
\* the frame.
ChoiceAreas == {Rect(0, 0, 12, 3), Rect(1, 0, 8, 2)}
PopupInners == {Rect(1, 1, 3, 2)}

ChoiceNext ==
    \/ NextPage
    \/ PrevPage
    \/ \E a \in ChoiceAreas : IntoBuffer(a, FALSE, MaxSlots)
    \/ \E h \in 0 .. (MaxSlots - 1), block \in BOOLEAN :
          RenderChoice(h, block, MaxKeys)
    \/ WidgetRender
    \/ \E inner \in PopupInners : RenderPopup(inner)
    \/ \E active \in BOOLEAN : SetPopupActive(active)

SpecChoice == InitPager /\ [][ChoiceNext]_vars

\* A Choice is rendered with changing items; the application selects.
Selections == {NoValue} \cup {SomeValue(k) : k \in 0 .. MaxKeys}

ChoiceValueNext ==
    \/ \E a \in ChoiceAreas, block \in BOOLEAN, keys \in 0 .. MaxKeys :
          ChoiceRender(a, block, [i \in 1 .. keys |-> "a"], NoValue)
    \/ \E sel \in Selections : ChoiceSelect(sel)
    \/ \E key \in 0 .. MaxKeys : ChoiceSetValue(key)
    \/ ChoiceValueOpt

SpecChoiceValue == InitPager /\ [][ChoiceValueNext]_vars

\* A Choice is rendered with changing items; the application and the keys
\* move the selection.
Items == UNION {[1 .. n -> Chars] : n \in 0 .. MaxKeys}

ChoiceSelectNext ==
    \/ \E items \in Items, default \in Selections :
          ChoiceRender(Rect(0, 0, 6, 1), FALSE, items, default)
    \/ \E sel \in Selections : ChoiceSelect(sel)
    \/ \E key \in 0 .. MaxKeys : ChoiceSetValue(key)
    \/ \E n \in 0 .. MaxKeys : ChoiceMoveTo(n)
    \/ \E n \in 0 .. MaxKeys : ChoiceMoveDown(n)
    \/ \E n \in 0 .. MaxKeys : ChoiceMoveUp(n)
    \/ ChoiceSetDefaultValue
    \/ \E c \in Chars : ChoiceSelectByChar(c)

SpecChoiceSelect == InitPager /\ [][ChoiceSelectNext]_vars

\* The keys reach a Choice that has or has not the focus.
ChoiceKeyNext ==
    \/ \E items \in Items, default \in Selections :
          ChoiceRender(Rect(0, 0, 6, 1), FALSE, items, default)
    \/ \E f \in BOOLEAN : ChoiceFocus(f)
    \/ \E key \in Keys : ChoiceHandle(key)

SpecChoiceKey == InitPager /\ [][ChoiceKeyNext]_vars

\* A widget iterates the glyphs of a text.
InitGlyph ==
    /\ PagerInit /\ ClipInit /\ ChoiceInit /\ GlyphInit /\ WordIdle /\ DialogIdle
    /\ pager = "Single" /\ clip = "View"

GlyphIterNext == GlyphNext

SpecGlyph == InitGlyph /\ [][GlyphIterNext]_vars

\* The cursor of a text widget moves by words.
InitWord ==
    /\ PagerInit /\ ClipInit /\ ChoiceInit /\ GlyphIdle /\ WordInit /\ DialogIdle
    /\ pager = "Single" /\ clip = "View"

WordNext ==
    \/ NextWordStart
    \/ NextWordEnd
    \/ PrevWordStart
    \/ PrevWordEnd

SpecWord == InitWord /\ [][WordNext]_vars

\* An application shows messages in a MsgDialog and sends it events.
InitDialog ==
    /\ PagerInit /\ ClipInit /\ ChoiceInit /\ GlyphIdle /\ WordIdle /\ DialogIdle
    /\ pager = "Single" /\ clip = "View"

DialogNext ==
    \/ \E active \in BOOLEAN : SetActive(active)
    \/ DialogClear
    \/ \E title \in BOOLEAN : DialogTitle(title)
    \/ \E msg \in MsgTexts : DialogAppend(msg)
    \/ \E ev \in DialogEvents, bo \in ButtonOutcomes, po \in Outcomes :
          DialogHandle(ev, bo, po)

SpecDialog == InitDialog /\ [][DialogNext]_vars

Spec == SpecPager

\* ========================================================================
\* Claims
\* ========================================================================
n_pages == num_pages(layout)
Step == IF pager = "Single" THEN 1 ELSE 2
LastPage(kind, n) == IF kind = "Single" THEN n - 1 ELSE ClearBit0(n - 1)
ValidPage(kind, p, n) == p >= 0 /\ p < n /\ (kind = "Dual" => p % 2 = 0)

\* C1: with n >= 1 pages, after any sequence of set_page(t) (also t >= n),
\* next_page() and prev_page() calls the current page is in 0 .. n-1.
C1_PageInRange == page >= 0 /\ page < n_pages
C1_Witness ==
    /\ call.op = "set_page" /\ call.arg > n_pages /\ n_pages >= 2
    /\ page = LastPage(pager, n_pages)

\* C2: the page of a DualPagerState is even after any sequence of
\* next_page, prev_page, set_page, show_handle and show_area calls.
C2_DualParity == pager = "Dual" => page % 2 = 0
C2_Witness ==
    /\ pager = "Dual" /\ call.op \in {"show_handle", "show_area"}
    /\ buf_handle(layout, call.arg).page % 2 = 1
    /\ page = buf_handle(layout, call.arg).page - 1

\* C3: set_page(t) leaves page = min(t, n-1), rounded down to an even number
\* for Dual, and returns true exactly when the stored page changed.
C3_SetPageClamps ==
    call.op = "set_page" =>
        /\ page = (IF pager = "Single" THEN Min(call.arg, n_pages - 1)
                   ELSE ClearBit0(Min(call.arg, n_pages - 1)))
        /\ ret = BoolRet(page # old_page)
C3_Witness ==
    /\ call.op = "set_page" /\ pager = "Dual" /\ call.arg >= n_pages
    /\ n_pages % 2 = 0 /\ page = n_pages - 2 /\ ret = BoolRet(TRUE)

\* C4: from a valid page p, next_page() moves to p+step if p+step < n and
\* prev_page() to p-step if p >= step, otherwise they leave p unchanged;
\* they return true exactly when p changed.
C4_NavigationSteps ==
    /\ (call.op = "next_page" /\ ValidPage(pager, old_page, n_pages)) =>
          /\ page = (IF old_page + Step < n_pages THEN old_page + Step
                     ELSE old_page)
          /\ ret = BoolRet(page # old_page)
    /\ (call.op = "prev_page" /\ ValidPage(pager, old_page, n_pages)) =>
          /\ page = (IF old_page >= Step THEN old_page - Step ELSE old_page)
          /\ ret = BoolRet(page # old_page)
C4_Witness ==
    /\ call.op = "next_page" /\ pager = "Dual" /\ old_page > 0
    /\ old_page + 2 = n_pages /\ page = old_page /\ ret = BoolRet(FALSE)

\* the events that navigate: a left press on an indicator, a vertical wheel
\* event inside scroll_area
IsTrigger(ev) ==
    \/ ev.kind = "down_left"
          /\ (Contains(prev_area, ev.x, ev.y) \/ Contains(next_area, ev.x, ev.y))
    \/ ev.kind \in {"scroll_down", "scroll_up"}
          /\ Contains(scroll_area, ev.x, ev.y)

\* C5: for a navigating event the handler returns Page(p) with p the new
\* current page exactly when the page changed, and Unchanged otherwise.
C5_PageOutcome ==
    (call.op = "handle" /\ IsTrigger(call.ev)) =>
        IF page # old_page THEN ret = PageOutcome(page) ELSE ret = Unchanged
C5_Witness ==
    /\ call.op = "handle" /\ call.ev.kind = "scroll_down"
    /\ ret = PageOutcome(page) /\ page = old_page + Step

\* C6: every other event leaves the page unchanged; it returns Changed only
\* for a hover change and Continue for a wheel event outside scroll_area.
C6_OnlyTriggersNavigate ==
    (call.op = "handle" /\ ~IsTrigger(call.ev)) =>
        /\ page = old_page
        /\ ret \in {Continue, Changed}
        /\ ret = Changed => call.ev.kind = "moved"
        /\ call.ev.kind \in {"scroll_down", "scroll_up", "key"} => ret = Continue
C6_Witness ==
    /\ call.op = "handle" /\ call.ev.kind = "moved" /\ ret = Changed
    /\ hover = 1 /\ page = old_page /\ page + Step < n_pages

\* C7 as stated: into_buffer leaves a valid page unchanged and sets every
\* other page to the last valid page; the final render never changes it.
C7_Original ==
    /\ (call.op = "into_buffer" /\ ~panicked) =>
          IF ValidPage(pager, old_page, n_pages) THEN page = old_page
          ELSE page = LastPage(pager, n_pages)
    /\ call.op = "render" => page = old_page

\* C7 (amended): into_buffer leaves a valid page unchanged, sets a page
\* >= page_count to the last valid page, and rounds an odd in-range page of
\* a DualPager down to page - 1; the final render never changes the page.
C7_RenderClampsPage ==
    /\ (call.op = "into_buffer" /\ ~panicked) =>
          IF ValidPage(pager, old_page, n_pages) THEN page = old_page
          ELSE IF old_page >= n_pages THEN page = LastPage(pager, n_pages)
          ELSE page = old_page - 1
    /\ call.op = "render" => page = old_page
C7_Witness ==
    /\ call.op = "into_buffer" /\ ~panicked /\ old_page >= n_pages
    /\ n_pages >= 2 /\ page = LastPage(pager, n_pages)

RenderCalls == {"render_handle", "render_area"}
\* the page of the handle of the last render call
CallPage == buf_handle(buf.layout, call.arg).page
CallVisible ==
    \/ CallPage = buf.page
    \/ pager = "Dual" /\ CallPage = buf.page + 1

\* C8: a stateful render call draws the widget and does not hide its state
\* if the handle is on a visible page, and otherwise draws nothing and hides
\* the state with relocate((0,0), empty rect).
C8_DrawOrHide ==
    call.op \in RenderCalls =>
        /\ CallVisible => ret.tag = "drawn" /\ wstate = ret.at
        /\ ~CallVisible =>
              ret.tag = "hidden" /\ ret.at = RectDefault /\ wstate = RectDefault
C8_Witness ==
    /\ call.op \in RenderCalls /\ pager = "Dual" /\ CallPage = buf.page + 1
    /\ ret.tag = "drawn" /\ ~IsEmpty(wstate)

PlainShift(r, o) == Rect(r.x + o.x, r.y + o.y, r.width, r.height)
ExpectedLocate(pa) ==
    IF pa.page = buf.page THEN Some(PlainShift(pa.area, buf.widget_area1))
    ELSE IF pager = "Dual" /\ pa.page = buf.page + 1
    THEN Some(PlainShift(pa.area, buf.widget_area2))
    ELSE None

\* C9: locate / locate_handle / locate_area return the layout rectangle
\* shifted by the origin of the widget area of its page (widget_area for the
\* current page, widget_area2 for page+1 of a DualPager), None otherwise.
C9_LocateIsOffset ==
    phase = "buffer" =>
        \A h \in Handles(buf.layout) :
            /\ locate_handle(pager, buf, h)
                  = ExpectedLocate(buf_handle(buf.layout, h))
            /\ locate_area(pager, buf, layout_handle(buf.layout, h))
                  = ExpectedLocate(buf_handle(buf.layout, h))
C9_Witness ==
    /\ phase = "buffer" /\ pager = "Dual"
    /\ buf.widget_area2.x > buf.widget_area1.x
    /\ \E h \in Handles(buf.layout) :
          /\ buf_handle(buf.layout, h).page = buf.page + 1
          /\ buf_handle(buf.layout, h).area.y = 1
          /\ locate_handle(pager, buf, h).some
          /\ locate_handle(pager, buf, h).area.x = buf.widget_area2.x
          /\ locate_handle(pager, buf, h).area.y = buf.widget_area2.y + 1

\* C10: for Clipper and View state, after any sequence of offset sets,
\* delta scrolls, scroll_to calls and render passes, 0 <= offset <= max_offset
\* holds on both axes.
C10_ScrollBounds ==
    /\ 0 <= hscroll.offset /\ hscroll.offset <= hscroll.max_offset
    /\ 0 <= vscroll.offset /\ vscroll.offset <= vscroll.max_offset

\* C11: after Clipper::into_buffer / View::into_buffer, on each axis page_len
\* is the extent of the viewport (the inner area) and max_offset is
\* max(0, content extent - viewport extent).
ContentExtentX == IF clip = "Clipper" THEN c_layout.x + c_layout.width
                  ELSE c_layout.width
ContentExtentY == IF clip = "Clipper" THEN c_layout.y + c_layout.height
                  ELSE c_layout.height
C11_ScrollExtents ==
    c_call.op = "into_buffer" =>
        /\ hscroll.page_len = c_widget_area.width
        /\ vscroll.page_len = c_widget_area.height
        /\ hscroll.max_offset = Max(0, ContentExtentX - c_widget_area.width)
        /\ vscroll.max_offset = Max(0, ContentExtentY - c_widget_area.height)
C11_Witness ==
    /\ c_call.op = "into_buffer" /\ clip = "Clipper"
    /\ c_layout.width > 0 /\ c_layout.width < c_widget_area.width
    /\ hscroll.max_offset = 0 /\ vscroll.max_offset = 0
    /\ hscroll.page_len = c_widget_area.width

TargetInBuffer(r) ==
    IF clip = "Clipper" THEN Rect(r.x - c_layout.x, r.y - c_layout.y,
                                  r.width, r.height)
    ELSE r
C13_DrawOrHide ==
    [][c_call'.op = "render_stateful" =>
        LET loc == TargetInBuffer(c_call'.at)
        IN  IF Intersects(loc, c_buf.buffer.area)
            THEN /\ c_ret' = "drawn"
                 /\ \A i \in DOMAIN c_buf.buffer.content :
                       LET x == CellX(c_buf.buffer, i)
                           y == CellY(c_buf.buffer, i)
                       IN  c_buf'.buffer.content[i] =
                              IF Contains(loc, x, y) THEN Mark(loc, x, y)
                              ELSE c_buf.buffer.content[i]
                 /\ c_wstate' = relocate_area(loc, shift(c_buf).x,
                                              shift(c_buf).y, c_widget_area)
            ELSE /\ c_ret' = "hidden"
                 /\ c_buf' = c_buf
                 /\ c_wstate' = RectDefault]_vars
C13_Witness ==
    /\ c_call.op = "render_stateful" /\ c_ret = "drawn"
    /\ c_call.at = Rect(2, 1, 2, 2) /\ c_buf.buf_offset_x = 2
    /\ c_widget_area = Rect(1, 1, 2, 2)
    /\ c_wstate = Rect(1, 2, 2, 1)

\* C14: when into_buffer returns, every cell of the off-screen buffer is
\* the default cell, whether the buffer was reused or newly created.
C14_BufferReset ==
    c_call.op = "into_buffer" =>
        /\ Len(c_buf.buffer.content) = CellCount(c_buf.buffer.area)
        /\ \A i \in DOMAIN c_buf.buffer.content :
              c_buf.buffer.content[i] = Blank
C14_Witness ==
    /\ c_call.op = "into_buffer" /\ c_reused
    /\ \E i \in DOMAIN phys.content : phys.content[i] > Blank
    /\ CellCount(c_buf.buffer.area) > 0
    /\ \A i \in DOMAIN c_buf.buffer.content : c_buf.buffer.content[i] = Blank

\* C15: the off-screen buffer has one owner: while a frame is drawn the
\* ClipperBuffer/ViewBuffer holds it and the state holds none, after the
\* final render the state holds it, and every into_buffer after a completed
\* frame reuses the stored buffer.
C15_BufferOwner ==
    /\ (c_phase = "buffer" /\ ~c_panicked) =>
          c_buf.buffer.some /\ ~c_buffer.some
    /\ (c_phase = "idle" /\ ~c_panicked) =>
          ~c_buf.buffer.some /\ (c_buffer.some <=> c_done)
    /\ c_call.op = "into_buffer" => (c_reused <=> c_done)
C15_Witness ==
    /\ c_call.op = "into_buffer" /\ c_reused /\ c_done
    /\ c_buf.buffer.some /\ ~c_buffer.some
    /\ c_buf.buffer.area = Rect(0, 0, 2, 1)

\* the rectangles a ChoiceState caches
Rects(st) ==
    {st.area, st.item_area, st.button_area}
        \cup {st.item_areas[k] : k \in DOMAIN st.item_areas}

\* C16: after ChoiceState::relocate((0,0), empty rect) the rectangles area,
\* item_area, button_area and every element of item_areas are empty, and
\* item_areas has as many elements as before the call.
C16_HideZeroes ==
    [][(ch_call'.op = "render" /\ ~ch_call'.drawn) =>
        /\ \A r \in Rects(choice') : IsEmpty(r)
        /\ Len(choice'.item_areas) = Len(choice.item_areas)]_vars
C16_Witness ==
    /\ ch_call.op = "render" /\ ~ch_call.drawn
    /\ Len(choice.item_areas) = 2
    /\ \A r \in Rects(choice) : IsEmpty(r)
    /\ Len(choice_nohide.item_areas) = 2
    /\ \A r \in Rects(choice_nohide) : ~IsEmpty(r)

\* a render call has drawn the Choice at a non-empty area after a render
\* call of an earlier frame had hidden it
ShownAfterHide ==
    /\ ch_call.op = "render" /\ ch_call.drawn /\ ch_call.after_hide
    /\ ~IsEmpty(ch_call.at)

RECURSIVE SumLen(_)
SumLen(gs) == IF gs = <<>> THEN 0 ELSE gs[1].len + SumLen(Tail(gs))

\* the display width of a text: every grapheme advances the column by its
\* length at that column
RECURSIVE DisplayWidth(_, _, _, _, _)
DisplayWidth(kind, text, col, tabs, show_ctrl) ==
    IF text = <<>> THEN col
    ELSE DisplayWidth(kind, Tail(text),
                      col + GlyphLen(kind, text[1], col, tabs, show_ctrl),
                      tabs, show_ctrl)

\* C18: with offset 0 and no width limit the lengths of all glyphs an
\* iterator returns add up to the display width of the text.
C18_WidthSum ==
    (g_done /\ git.offset = 0 /\ git.width = NoWidthLimit)
        => SumLen(emitted) = DisplayWidth(git.kind, git.text, 0, git.tabs,
                                        git.show_ctrl)

C18_Witness ==
    /\ g_done /\ git.offset = 0 /\ git.width = NoWidthLimit
    /\ git.text = <<"a", "tab", "W">> /\ git.tabs = 8
    /\ emitted[2].len = 7
    /\ SumLen(emitted) = 10

\* C19: a glyph that starts at column c left of the offset k and ends at
\* c + w right of it is returned as a space of width c + w - k.
C19_PartialWidth ==
    \A i \in DOMAIN emitted :
        emitted[i].partial
            => /\ emitted[i].glyph = " "
               /\ emitted[i].len = emitted[i].col + emitted[i].full - git.offset

\* all glyphs an iterator returns
RECURSIVE Collect(_)
Collect(it) ==
    LET r == IterNext(it)
    IN  IF r.item.some THEN <<r.item>> \o Collect(r.it) ELSE <<>>

GlyphAndLen(gs) == [i \in DOMAIN gs |-> <<gs[i].glyph, gs[i].len>>]
StartsFrom(g) == g.col >= git.offset

\* C20: without a width limit the glyphs returned for the offset k, after
\* the leading cut glyph if there is one, are the glyphs returned for
\* offset 0 that start at a column >= k, with the same texts and lengths.
C20_ClipInvariance ==
    (g_done /\ git.width = NoWidthLimit)
        => LET rest == IF emitted # <<>> /\ emitted[1].partial
                       THEN Tail(emitted) ELSE emitted
               it0 == NewIter(git.kind, git.text, 0, NoWidthLimit, git.tabs,
                              git.show_ctrl)
           IN  /\ \A i \in DOMAIN rest : ~rest[i].partial
               /\ GlyphAndLen(rest) = GlyphAndLen(SelectSeq(Collect(it0), StartsFrom))

C20_Witness ==
    /\ g_done /\ git.width = NoWidthLimit /\ git.offset = 1 /\ git.tabs = 8
    /\ git.text = <<"W", "a", "tab">>
    /\ Len(emitted) = 3
    /\ emitted[1].partial
    /\ emitted[3].len = 5

\* C21: with a width limit W the lengths of the returned glyphs add up to
\* at most W, and no returned glyph starts at a column >= offset + W.
C21_WidthLimit ==
    git.width # NoWidthLimit
        => /\ SumLen(emitted) <= git.width
           /\ \A i \in DOMAIN emitted : emitted[i].col < git.offset + git.width

\* the glyph returned last and the grapheme it was made from
LastGlyph == emitted[Len(emitted)]
LastGrapheme == git.text[git.pos]
TabStop(c, t) == t - (c % t)

\* C22: a tab at the absolute column c that is returned whole has the
\* length t - (c mod t), which is between 1 and t, and the next glyph
\* starts at a multiple of the tab width t.
C22_TabStop ==
    (/\ emitted # <<>> /\ ~g_done
     /\ git.kind # "Str" /\ LastGrapheme = "tab"
     /\ LastGlyph.col >= git.offset
     /\ LastGlyph.col + TabStop(LastGlyph.col, git.tabs) <= git.offset + git.width)
        => /\ LastGlyph.len = TabStop(LastGlyph.col, git.tabs)
           /\ LastGlyph.len >= 1 /\ LastGlyph.len <= git.tabs
           /\ git.col = LastGlyph.col + LastGlyph.len
           /\ git.col % git.tabs = 0

C22_Witness ==
    /\ ~g_done /\ git.kind = "Rope" /\ git.offset = 0 /\ git.tabs = 8
    /\ git.text = <<"a", "tab", "a">>
    /\ Len(emitted) = 2
    /\ emitted[1].len = 1 /\ emitted[2].len = 7
    /\ git.col = 8

\* C23: a line break is returned with length 0 and an empty text, or with
\* length 1 and its placeholder when show_ctrl is set; any other control
\* code (the tab too where tabs are not expanded) is returned with length
\* 1, as its own placeholder when show_ctrl is set and as U+FFFD otherwise.
C23_CtrlSubstitution ==
    (emitted # <<>> /\ ~g_done)
        => /\ LastGrapheme = "nl"
                => /\ LastGlyph.len = (IF git.show_ctrl THEN 1 ELSE 0)
                   /\ LastGlyph.glyph = (IF git.show_ctrl THEN "U+2424" ELSE "")
           /\ (LastGrapheme = "ctl" \/ (LastGrapheme = "tab" /\ git.kind = "Str"))
                => /\ LastGlyph.len = 1
                   /\ LastGlyph.glyph =
                        (IF ~git.show_ctrl THEN "U+FFFD"
                         ELSE IF LastGrapheme = "ctl" THEN "U+2401" ELSE "U+2409")

C23_Witness ==
    /\ ~g_done /\ git.show_ctrl /\ git.kind = "Str"
    /\ git.text = <<"nl", "tab", "ctl">>
    /\ Len(emitted) = 3
    /\ emitted[1].glyph = "U+2424" /\ emitted[1].len = 1
    /\ emitted[3].glyph = "U+2401" /\ emitted[3].len = 1

Lens(gs) == [i \in DOMAIN gs |-> gs[i].len]

\* C24: the iterator over a str returns glyphs of the same lengths as the
\* iterator over a rope with the default tab width 8, for the same text,
\* offset and show_ctrl.
C24_StrEqualsRope ==
    (g_done /\ git.kind = "Str")
        => Lens(emitted) =
           Lens(Collect(NewIter("Rope", git.text, git.offset, NoWidthLimit, 8,
                                git.show_ctrl)))

\* C25: next_word_start and next_word_end return a position >= pos,
\* prev_word_start and prev_word_end a position <= pos and >= 0, and no
\* call ends in an arithmetic underflow.
C25_WordMonotone ==
    /\ w_fail = "none"
    /\ w_call.op \in {"next_word_start", "next_word_end"} => w_pos >= w_call.pos
    /\ w_call.op \in {"prev_word_start", "prev_word_end"}
            => w_pos >= 0 /\ w_pos <= w_call.pos

SingleLine == \A i \in DOMAIN w_text : ~IsLineBreak(w_text[i])

\* C26: in a text of one line with L graphemes next_word_end moves the
\* cursor forward from every position < L and stays at L, and
\* prev_word_start moves it backward from every position > 0 and stays at
\* 0; no call fails.
C26_WordProgress ==
    SingleLine
        => /\ w_fail = "none"
           /\ w_pos >= 0 /\ w_pos <= Len(w_text)
           /\ w_call.op = "next_word_end"
                => IF w_call.pos < Len(w_text) THEN w_pos > w_call.pos
                   ELSE w_pos = Len(w_text)
           /\ w_call.op = "prev_word_start"
                => IF w_call.pos > 0 THEN w_pos < w_call.pos ELSE w_pos = 0

C26_Witness ==
    /\ w_text = <<"a", "tab", "a">>
    /\ w_call = WordCall("next_word_end", 1)
    /\ w_pos = 3 /\ w_fail = "none"

OutcomeRank(o) == CASE o = "Continue" -> 0 [] o = "Unchanged" -> 1 [] OTHER -> 2

\* C29: an active MsgDialog answers every event with an outcome of at
\* least Unchanged; an inactive one answers Continue and changes nothing.
C29_Modal ==
    [][\A ev \in DialogEvents :
        (dlg_call'.op = "handle" /\ dlg_call'.ev = ev)
            => IF dlg.active
               THEN OutcomeRank(dlg_call'.outcome) >= OutcomeRank("Unchanged")
               ELSE dlg_call'.outcome = "Continue" /\ dlg' = dlg]_vars

C29_Witness ==
    /\ dlg_call = DialogCall("handle", "other", TRUE, "Unchanged", "none")
    /\ dlg.active /\ Len(dlg_since) = 2

\* C27: into_buffer never panics or wraps around, whatever the size of the
\* area: next_area.x = widget_area.x + max(0, widget_area.width - 5), and
\* prev_area, next_area and scroll_area lie in the row of the area.
C27_SaturatingGeometry ==
    /\ ~panicked
    /\ phase = "buffer"
            => LET wa == PagerInner(area, FALSE)
               IN  /\ next_area = RectNew(wa.x + SatSub(wa.width, NavWidth),
                                          area.y, NavWidth, 1)
                   /\ prev_area = RectNew(wa.x, area.y, NavWidth, 1)
                   /\ scroll_area = RectNew(area.x + 1, area.y,
                                            SatSub(area.width, 2), 1)

\* C28: value_opt and value_opt_ref return None when nothing is selected
\* or there are no items, and the key at the selected index otherwise;
\* they never index outside the keys of the last render.
C28_ValueOpt ==
    ch_call.op = "value_opt"
        => IF ch_selected = NoValue \/ ch_keys = 0
           THEN ch_value = NoValue
           ELSE ch_selected.v < ch_keys /\ ch_value = SomeValue(ch_selected.v)

\* C30: the final copy reads only cells of the off-screen buffer: every
\* source row buf_offset_y + y, y < viewport height, is a row of the
\* buffer, and the columns buf_offset_x .. buf_offset_x + copy_width lie
\* inside that row.
C30_CopyInsideBuffer ==
    c_phase = "buffer"
        => LET b == c_buf.buffer
               n == copy_width(c_widget_area, b)
           IN  \A y \in 0 .. (c_widget_area.height - 1) :
                   /\ c_buf.buf_offset_y + y >= b.area.y
                   /\ c_buf.buf_offset_y + y < b.area.y + b.area.height
                   /\ c_buf.buf_offset_x >= b.area.x
                   /\ c_buf.buf_offset_x + n <= b.area.x + b.area.width

\* C31: render_widget_handle draws the widget exactly when the rectangle
\* located for the handle is not empty, as render_widget does.
C31_HandleDrawsVisible ==
    c_call.op \in {"render_widget", "render_widget_handle"}
        => (c_ret = "drawn"
              <=> ~IsEmpty(ClipLocate(clip, c_buf.layout, c_call.at)))

\* the screen position of the off-screen cell (bx, by) in the final copy
ScreenX(b, bx) == b.widget_area.x + bx - b.buf_offset_x
ScreenY(b, by) == b.widget_area.y + by - b.buf_offset_y

\* C32: the rectangle cached at the off-screen position (bx, by) is moved
\* to the screen position the final render copies the cell (bx, by) to,
\* clipped to the viewport; and after the frame every screen cell of the
\* cached rectangle shows the cell the widget drew for it.
C32_RelocationMatchesCopy ==
    [][/\ (c_call'.op = "render_stateful" /\ c_ret' = "drawn")
            => LET loc == TargetInBuffer(c_call'.at)
                   moved == Rect(ScreenX(c_buf, loc.x), ScreenY(c_buf, loc.y),
                                 loc.width, loc.height)
                   t == Intersection(moved, c_widget_area)
               IN  c_wstate' = IF IsEmpty(t) THEN RectDefault ELSE t
       /\ (c_call'.op = "render" /\ ~c_panicked' /\ c_ret = "drawn")
            => LET loc == TargetInBuffer(c_call.at)
               IN  \A sx \in 0 .. (Screen.width - 1), sy \in 0 .. (Screen.height - 1) :
                     Contains(c_wstate, sx, sy)
                        => LET bx == sx - shift(c_buf).x
                               by == sy - shift(c_buf).y
                           IN  /\ Contains(loc, bx, by)
                               /\ Contains(c_buf.buffer.area, bx, by)
                               /\ CellAt(phys', sx, sy) = Mark(loc, bx, by)]_vars

\* C33: for a DualPagerBuffer is_visible_handle(h) is true exactly when
\* locate_handle(h) is Some, and is_visible_area(r) is true exactly when
\* locate_area(r) is Some.
C33_VisibleIffLocated ==
    pager = "Dual" =>
        /\ call.op = "is_visible_handle"
              => ret = BoolRet(locate_handle(pager, buf, call.arg).some)
        /\ call.op = "is_visible_area"
              => ret = BoolRet(locate_area(pager, buf,
                                           layout_handle(buf.layout, call.arg)).some)

\* C34: for a DualPager inner_left(area) is the widget_area1 and
\* inner_right(area) is the widget_area2 that into_buffer(area) stores, and
\* layout_width(area) is widget_area1.width and at most widget_area2.width.
C34_InnerAreasMatch ==
    (pager = "Dual" /\ phase = "buffer") =>
        \A block \in BOOLEAN :
            (/\ DualGeom(area, block).widget_area1 = widget_area1
             /\ DualGeom(area, block).widget_area2 = widget_area2)
                => /\ inner_left(area, block) = widget_area1
                   /\ inner_right(area, block) = widget_area2
                   /\ layout_width(area, block) = widget_area1.width
                   /\ layout_width(area, block) <= widget_area2.width

\* C35: with a fixed layout and a valid page, an application that from some
\* point on only calls next_page() reaches the last page position (n-1 for
\* Single, the largest even index <= n-1 for Dual) and next_page() returns
\* false from then on; one that only calls prev_page() reaches page 0 and
\* prev_page() returns false from then on.
C35_NavigationReachesEnds ==
    /\ (WF_vars(NextPage) /\ <>[](call.op = "next_page"))
          => <>[](/\ page = LastPage(pager, n_pages)
                  /\ ret = BoolRet(FALSE))
    /\ (WF_vars(PrevPage) /\ <>[](call.op = "prev_page"))
          => <>[](page = 0 /\ ret = BoolRet(FALSE))
C35_Witness ==
    /\ pager = "Dual" /\ n_pages = 3 /\ page = 2 /\ old_page = 2
    /\ call.op = "next_page" /\ ret = BoolRet(FALSE)

SelOps == {"select", "move_to", "move_down", "move_up", "set_value",
           "set_default_value", "select_by_char"}
InList(sel, len) == sel = NoValue \/ (sel.kind = "Some" /\ sel.v < len)

\* C36: with a fixed key list of length L, select, move_to, move_down,
\* move_up, set_value, set_default_value and select_by_char take a selection
\* that is None or an index < L to a selection that is None or an index < L;
\* with L = 0 select, move_down and move_up leave the selection None.
C36_SelectionInList ==
    [][(ch_call'.op \in SelOps /\ InList(ch_selected, ch_keys))
          => /\ ch_keys' = ch_keys
             /\ InList(ch_selected', ch_keys)
             /\ (ch_keys = 0 /\ ch_call'.op \in {"select", "move_down", "move_up"})
                   => ch_selected' = NoValue]_vars
C36_Witness ==
    /\ ch_call.op = "move_down" /\ ch_call.arg = 2 /\ ch_call.ret = "true"
    /\ ch_keys = 2 /\ ch_selected = SomeValue(1)

\* C37: select_by_char(c) returns in every state that renders and selection
\* operations reach, also after a render with fewer items than the selected
\* index when no item starts with c.
C37_SelectByCharTerminates ==
    ch_call.op = "select_by_char" => (ch_call.ret # "hang" /\ ch_value # Hang)

\* the indexes of the items with the first character c, the selected one
\* left out
Candidates(nav, sel, c) ==
    {i \in 0 .. (Len(nav) - 1) :
        nav[i + 1] = Lower(c) /\ (sel.kind = "Some" => i # sel.v)}
\* the number of steps forward, wrapping around, from the item after `from`
Forward(len, from, i) == ((i - (from + 1)) + len) % len

\* C38: if an item other than the selected one starts with c (in either
\* case), select_by_char(c) selects the first such item after the selection,
\* wrapping around, and returns true; otherwise it leaves the selection and
\* returns false. Without a selection every item, item 0 too, is a candidate.
C38_SelectCyclic ==
    [][(ch_call'.op = "select_by_char" /\ InList(ch_selected, ch_keys))
          => LET cands == Candidates(ch_nav, ch_selected, ch_call'.arg)
             IN  IF cands = {}
                 THEN ch_selected' = ch_selected /\ ch_call'.ret = "false"
                 ELSE /\ ch_call'.ret = "true"
                      /\ ch_selected'.kind = "Some"
                      /\ ch_selected'.v \in cands
                      /\ ch_selected.kind = "Some"
                            => \A i \in cands :
                                  Forward(Len(ch_nav), ch_selected.v, ch_selected'.v)
                                     <= Forward(Len(ch_nav), ch_selected.v, i)]_vars

\* C39 as stated: while the Choice has the focus, Down and Up open the popup
\* and move the selection by one (from None to the first item for Down, to
\* the last item for Up), Enter and Esc close the popup, Space toggles it;
\* without the focus a key neither changes the selection nor opens the popup.
C39_Original ==
    [][(ch_call'.op = "handle")
          => LET key == ch_call'.arg
                 active == choice.popup_active
                 active1 == choice'.popup_active
             IN  IF ch_focus.focus
                 THEN /\ key = "Down"
                           => /\ active1
                              /\ ch_selected' =
                                    IF ch_selected = NoValue THEN SomeValue(0)
                                    ELSE SomeValue(ch_selected.v + 1)
                      /\ key = "Up"
                           => /\ active1
                              /\ ch_selected' =
                                    IF ch_selected = NoValue
                                    THEN SomeValue(ch_keys - 1)
                                    ELSE SomeValue(ch_selected.v - 1)
                      /\ key \in {"Enter", "Esc"} => ~active1
                      /\ key = "Space" => active1 = ~active
                 ELSE /\ ch_selected' = ch_selected
                      /\ active1 => active]_vars

\* the selection one step further, kept inside a list of len items
StepInList(len, sel, d) ==
    IF len = 0 THEN NoValue
    ELSE IF sel = NoValue THEN SomeValue(IF d > 0 THEN 0 ELSE len - 1)
    ELSE SomeValue(Min(Max(sel.v + d, 0), len - 1))

\* C39: while the Choice has the focus, Down and Up open the popup and move
\* the selection by one, clamped to the list (from None to the first item
\* for Down, to the last item for Up; None stays with an empty list), Enter
\* and Esc close the popup, Space toggles it; without the focus a key
\* neither changes the selection nor opens the popup.
C39_PopupKeys ==
    [][(ch_call'.op = "handle")
          => LET key == ch_call'.arg
                 active == choice.popup_active
                 active1 == choice'.popup_active
             IN  IF ch_focus.focus
                 THEN /\ key = "Down"
                           => /\ active1
                              /\ ch_selected' = StepInList(ch_keys, ch_selected, 1)
                      /\ key = "Up"
                           => /\ active1
                              /\ ch_selected' = StepInList(ch_keys, ch_selected, 0 - 1)
                      /\ key \in {"Enter", "Esc"} => ~active1
                      /\ key = "Space" => active1 = ~active
                 ELSE /\ ch_selected' = ch_selected
                      /\ active1 => active]_vars
C39_Witness ==
    /\ ch_call.op = "handle" /\ ch_call.arg = "Up" /\ ch_focus.focus
    /\ choice.popup_active /\ ch_keys = 2 /\ ch_selected = SomeValue(0)

\* the texts joined by single newlines
RECURSIVE Join(_)
Join(texts) ==
    IF texts = <<>> THEN <<>>
    ELSE IF Len(texts) = 1 THEN texts[1]
    ELSE texts[1] \o <<"nl">> \o Join(Tail(texts))
NonEmptyText(t) == t # <<>>
RECURSIVE FromFirstNonEmpty(_)
FromFirstNonEmpty(texts) ==
    IF texts = <<>> \/ texts[1] # <<>> THEN texts
    ELSE FromFirstNonEmpty(Tail(texts))
\* the last call closed the dialog: clear(), or handle() with the Ok button
\* pressed or with an Esc that reached the dialog
ClosedNow == dlg_call.op = "clear" \/ dlg_call.closed_by # "none"

\* C40 as stated: append(m) makes the dialog active and the message is the
\* non-empty texts appended since the last close, joined by single newlines;
\* a close (the Ok button pressed, Esc, clear()) makes it inactive with an
\* empty message, so after append(a), close, append(b) the message is b.
C40_Original ==
    /\ dlg_call.op = "append" => dlg.active
    /\ dlg.message = Join(SelectSeq(dlg_since, NonEmptyText))
    /\ ClosedNow => (~dlg.active /\ dlg.message = <<>>)

\* C40: append(m) makes the dialog active and the message is the texts
\* appended since the last close, from the first non-empty one on, joined by
\* single newlines (an empty text after a non-empty one adds an empty line);
\* a close (the Ok button pressed, Esc reaching the dialog, clear()) makes it
\* inactive with an empty message, so after append(a), close, append(b) the
\* message is b.
C40_MessageLifecycle ==
    /\ dlg_call.op = "append" => dlg.active
    /\ dlg.message = Join(FromFirstNonEmpty(dlg_since))
    /\ ClosedNow => (~dlg.active /\ dlg.message = <<>>)
C40_Witness ==
    /\ dlg_call.op = "append" /\ dlg.active
    /\ dlg_since = << <<"a">>, <<"b">> >>
    /\ dlg.message = <<"a", "nl", "b">>

====
